---- MODULE Spec2Model ----
(***************************************************************************)
(* WorkBot 3000: the session-state reconciliation engine (src/src/utils.ts *)
(* class WorkBot3000) and the quote provider (src/src/gemini.ts class      *)
(* GeminiClient), as a state machine of the Node.js event loop: every      *)
(* action is one synchronous run of a handler, from the event or promise   *)
(* resolution that starts it to the next await that really suspends.       *)
(*                                                                         *)
(* Spec is the bot process; QuoteSpec is the GeminiClient driven on its    *)
(* own, with withRetry's attempts and backoff as separate steps;           *)
(* MessageSpec calls the functions that build the text of a notification   *)
(* (formatDuration, getWorkerName, sanitizeDiscordMessage and the          *)
(* templates of sendSessionEndMessage) on inputs drawn from small sets;    *)
(* ConfigSpec calls parseBotConfig on environments drawn from small sets   *)
(* and starts the membership timer with the configuration it returns.      *)
(* SanitizeSpec calls sanitizeDiscordMessage on texts built from mention,  *)
(* emoji and markup fragments; LiveSpec is the bot at one instant of time  *)
(* with a notification's quote generation taken attempt by attempt and     *)
(* with fairness for the calls the shutdown drain awaits.                  *)
(*                                                                         *)
(* Abstractions:                                                           *)
(*  - SessionState.lastPresenceCheck is written (utils.ts 723, 895) and    *)
(*    never read; it is left out of the records.                           *)
(*  - In Spec a live quote generation is one step that settles with a      *)
(*    fetched quote or a fallback; MaxLiveQuotes bounds the quotes the     *)
(*    backend produces while the bot runs.                                 *)
(*  - hist, sigs, spurious, sendFailed and stopTask.atStop are history     *)
(*    variables: they record what happened and no guard of the program     *)
(*    reads them.                                                          *)
(*  - One activation slot per kind of handler (presence handler, polling   *)
(*    pass, refresh) may be suspended at a time.                           *)
(*  - A string is the sequence of its characters, each a one-character     *)
(*    string; U+200B and U+0060 are written ZWSP and BACKTICK.  Durations  *)
(*    stay below 2^31 ms, where JavaScript's numbers are exact.            *)
(***************************************************************************)
EXTENDS Integers, Sequences, FiniteSets, TLC

\* ------------------------------------------------------------------ bounds

Users == {"u1", "u2"}            \* non-bot guild members that may gain access
Bots == {"bot1"}                 \* guild members with member.user.bot set
Roster == Users \cup Bots        \* guild.members.cache after a fetch
MemberOrder == <<"u1", "u2">>   \* the order guild.members.cache yields them in
MaxTime == 2                     \* Date.now() ranges over 1..MaxTime
MaxSessions == 2                 \* sessions started in one run, over all identities
MaxInflight == 2                 \* notifications in flight at once
MaxLiveQuotes == 0               \* quotes the backend produces while the bot runs
NumFallbacks == 1                \* entries of the static fallback list told apart
MaxCalls == 3                    \* calls of the quote client in one run of QuoteSpec
MaxQuotes == 3                   \* quotes the backend produces in one run of QuoteSpec
MaxPreload == 2                  \* largest count given to preloadQuotes in QuoteSpec
maxCachedQuotes == 2             \* capacity of the quote cache configured for the run

\* --------------------------------------------------------- program constants

PreloadCount == 5                \* preloadQuotes(5) in onReady
Null == 0                        \* startTime: number | null (falsy either way)
maxAttempts == 3                 \* retryConfig of fetchQuoteFromApi
baseDelay == 1000
maxDelay == 5000
backoffMultiplier == 2

\* ------------------------------------------------------------ Map helpers
\* A JavaScript Map keeps insertion order: a sequence of entries keyed by userId.

MapKeys(m) == {m[i].userId : i \in 1..Len(m)}
MapHas(m, id) == \E i \in 1..Len(m) : m[i].userId = id
MapIndex(m, id) == CHOOSE i \in 1..Len(m) : m[i].userId = id
MapGet(m, id) == m[MapIndex(m, id)]
\* A map in which all keys share one value object.
MapSetShared(m, id, e) ==
  IF MapHas(m, id)
    THEN [i \in 1..Len(m) |-> [e EXCEPT !.userId = m[i].userId]]
    ELSE Append(m, e)
MapSet(m, id, e) ==
  IF MapHas(m, id)
    THEN [i \in 1..Len(m) |-> IF m[i].userId = id THEN e ELSE m[i]]
    ELSE Append(m, e)
MapDelete(m, id) == SelectSeq(m, LAMBDA e : e.userId # id)

\* ------------------------------------------------------------------- state

VARIABLES
  now,                 \* Date.now()
  phase,               \* where onReady stands: "constructed", "fetching", "running", "failed"
  targetChannel,       \* this.targetChannel is set
  monitoredUsers,      \* Map<userId, DiscordUser>
  sessionStates,       \* Map<userId, SessionState>
  isShuttingDown,      \* this.isShuttingDown
  pollingInterval,     \* "null", "set" or "cleared"
  memberCheckInterval, \* "null", "set" or "cleared"
  exited,              \* process.exit was called
  quoteCache,          \* GeminiClient.quoteCache
  nextQuoteId,         \* the next text the backend will produce
  notifs,              \* sendSessionEndMessage activations in flight, by awaiting owner
  polls,               \* performMonitoringCycle activations
  refreshes,           \* updateMonitoredUsers activations
  stopTask,            \* the stop() activation that passed the isShuttingDown guard
  preloadPending,      \* generateQuote calls of onReady's preloadQuotes in flight
  hist,                \* history: per identity, the sessions started and their events
  sigs,                \* history: per record, the signals updateSessionState was given
  spurious,            \* history: events emitted for no session
  sendFailed,          \* history: some channel.send has thrown
  qcalls,              \* QuoteSpec: the calls made on the GeminiClient, in call order
  call                 \* MessageSpec: the call of a text function and its result

vars == <<now, phase, targetChannel, monitoredUsers, sessionStates, isShuttingDown,
          pollingInterval, memberCheckInterval, exited, quoteCache, nextQuoteId,
          notifs, polls, refreshes, stopTask, preloadPending, hist, sigs, spurious,
          sendFailed, qcalls, call>>

\* ------------------------------------------------------------ presence

\* What a presence payload (or the cached member.presence) can look like:
\* missing, without an activity list, with a list that names other activities,
\* with a list that holds Satisfactory, or with a list that holds an entry
\* that is no object (null).
PresenceKinds == {"none", "noactivities", "other", "playing", "malformed"}

\* isPlayingSatisfactoryFromPresence throws: its callback reads activity.type
\* of an entry that is null (utils.ts 827-831).
presenceThrows(presence) == presence = "malformed"

\* isPlayingSatisfactoryFromPresence: false unless the activity list holds
\* a Playing activity named Satisfactory.
isPlayingSatisfactoryFromPresence(presence) ==
  IF presence = "none" \/ presence = "noactivities" THEN FALSE
  ELSE presence = "playing"

\* ------------------------------------------------------- session records

NewSessionState(userId) == [userId |-> userId, startTime |-> Null, isPlaying |-> FALSE]

\* A session start that restarts the session on every true signal.
SessionStartRestarts(st, isPlaying, t) ==
  IF isPlaying THEN [st EXCEPT !.isPlaying = TRUE, !.startTime = t] ELSE st

\* Handle session start (utils.ts 897-907).
SessionStart(st, isPlaying, t) ==
  IF isPlaying /\ ~st.isPlaying
    THEN [st EXCEPT !.isPlaying = TRUE, !.startTime = t]
    ELSE st

\* A session end that does not look at the signal.
SessionEndsIgnoresSignal(st, isPlaying) == st.isPlaying /\ st.startTime # Null

\* The condition of "Handle session end" (utils.ts 910).
SessionEnds(st, isPlaying) == ~isPlaying /\ st.isPlaying /\ st.startTime # Null

\* A reset that is put off until the notification has been awaited.
SessionResetLater(st) == st

\* A reset that forgets to clear startTime.
SessionResetKeepsStartTime(st) == [st EXCEPT !.isPlaying = FALSE]

\* Reset state first (utils.ts 913-915).
SessionReset(st) == [st EXCEPT !.isPlaying = FALSE, !.startTime = Null]

\* An update that computes the duration after it has reset the record.
UpdateRecordResetsFirst(st, isPlaying, t) ==
  LET st1 == SessionStart(st, isPlaying, t)
      ends == SessionEnds(st1, isPlaying)
  IN [st |-> IF ends THEN SessionReset(st1) ELSE st1,
      emit |-> ends,
      duration |-> IF ends THEN t - SessionReset(st1).startTime ELSE 0]

\* The synchronous part of updateSessionState on one record: the record it
\* leaves, and whether (and with what duration) sendSessionEndMessage is called.
UpdateRecord(st, isPlaying, t) ==
  LET st1 == SessionStart(st, isPlaying, t)
      ends == SessionEnds(st1, isPlaying)
  IN [st |-> IF ends THEN SessionReset(st1) ELSE st1,
      emit |-> ends,
      duration |-> IF ends THEN t - st1.startTime ELSE 0]

\* --------------------------------------------------------------- history

NewSession == [signal |-> 0, removal |-> 0, shutdown |-> 0, dropped |-> FALSE]
NewSigs == [last |-> FALSE, edges |-> 0, emits |-> 0]
Events(s) == s.signal + s.removal + s.shutdown

RECURSIVE SumLen(_, _)
SumLen(h, S) ==
  IF S = {} THEN 0
  ELSE LET u == CHOOSE x \in S : TRUE IN Len(h[u]) + SumLen(h, S \ {u})
SessionsStarted(h) == SumLen(h, Users)

\* Count one event of `kind` for session sid of identity u (sid = 0: no session).
CountEvent(w, u, sid, kind) ==
  IF sid = 0 THEN [w EXCEPT !.spurious = @ + 1]
  ELSE [w EXCEPT !.hist[u][sid][kind] = @ + 1]

\* ----------------------------------------------------------------- quotes

NoQuote == [id |-> 0, isFallback |-> FALSE]
\* A static list whose quotes are tagged as the backend's are.
FallbackQuotesUntagged == {[id |-> i, isFallback |-> FALSE] : i \in 1..NumFallbacks}

FallbackQuotes == {[id |-> i, isFallback |-> TRUE] : i \in 1..NumFallbacks}

\* A cacheQuote that pushes without looking at the size.
cacheQuoteUnbounded(cache, quote) == Append(cache, quote)

\* cacheQuote: push when there is space.
cacheQuote(cache, quote) ==
  IF Len(cache) < maxCachedQuotes THEN Append(cache, quote) ELSE cache

\* --------------------------------------------------- activations in flight

NoNotif == [userId |-> "", duration |-> 0, sid |-> 0, named |-> FALSE,
            stage |-> "none", quote |-> NoQuote, attempt |-> 0]
IdlePoll == [active |-> FALSE, next |-> 0]
IdleRefresh == [stage |-> "idle", owner |-> "", current |-> <<>>, newIds |-> {}]
IdleStop == [stage |-> "idle", queue |-> <<>>, atStop |-> {}]

\* The activations that can be suspended at once: one presence handler, one
\* polling pass, one membership refresh and the stop() that drains.
HandlerIds == {<<"handler", 1>>}
PollIds == {<<"poll", 1>>}
RefreshIds == {<<"refresh", 1>>}
StopId == <<"stop", 1>>
Owners == HandlerIds \cup PollIds \cup RefreshIds \cup {StopId}

\* The first free slot of a kind (slots of one kind are interchangeable).
FirstFree(free) == CHOOSE o \in free : \A o2 \in free : o[2] <= o2[2]

\* ---------------------------------------------------------------- the world
\* What one synchronous run of a handler reads and writes, threaded through
\* the operators below and committed by the action that runs them.

World == [states |-> sessionStates, mon |-> monitoredUsers, cache |-> quoteCache,
          hist |-> hist, sigs |-> sigs, spurious |-> spurious, sendFailed |-> sendFailed,
          polls |-> polls, stop |-> stopTask]

Commit(w) ==
  /\ sessionStates' = w.states
  /\ monitoredUsers' = w.mon
  /\ quoteCache' = w.cache
  /\ hist' = w.hist
  /\ sigs' = w.sigs
  /\ spurious' = w.spurious
  /\ sendFailed' = w.sendFailed
  /\ polls' = w.polls
  /\ stopTask' = w.stop

\* The session (index into hist[u]) that u's record is in, 0 when it is Idle.
ActiveSid(w, u) ==
  IF MapHas(w.states, u) /\ MapGet(w.states, u).isPlaying THEN Len(w.hist[u]) ELSE 0

\* updateSessionState(userId, isPlaying), up to its call of sendSessionEndMessage.
\* capped: the run would start a session beyond MaxSessions.
updateSessionState(w, u, isPlaying, t) ==
  IF ~MapHas(w.states, u)
    THEN [w |-> w, emit |-> FALSE, duration |-> 0, sid |-> 0, capped |-> FALSE]
    ELSE
      LET st == MapGet(w.states, u)
          r == UpdateRecord(st, isPlaying, t)
          starts == ~st.isPlaying /\ SessionStart(st, isPlaying, t).isPlaying
          h1 == IF starts THEN Append(w.hist[u], NewSession) ELSE w.hist[u]
          sid == IF SessionStart(st, isPlaying, t).isPlaying THEN Len(h1) ELSE 0
          sg == w.sigs[u]
          w1 == [w EXCEPT !.states = MapSet(@, u, r.st),
                          !.hist[u] = h1,
                          !.sigs[u] = [last |-> isPlaying,
                                       edges |-> sg.edges + (IF sg.last /\ ~isPlaying THEN 1 ELSE 0),
                                       emits |-> sg.emits + (IF r.emit THEN 1 ELSE 0)]]
      IN [w |-> IF r.emit THEN CountEvent(w1, u, sid, "signal") ELSE w1,
          emit |-> r.emit, duration |-> r.duration, sid |-> sid,
          capped |-> starts /\ SessionsStarted(w.hist) >= MaxSessions]

\* A getQuote that takes the quote cached last.
getQuoteSyncLast(cache) ==
  IF Len(cache) > 0
    THEN [cache |-> SubSeq(cache, 1, Len(cache) - 1), quote |-> cache[Len(cache)],
          pending |-> FALSE]
    ELSE [cache |-> cache, quote |-> NoQuote, pending |-> TRUE]

\* getQuote up to its first suspension: a cached quote is shifted off the
\* front; with an empty cache a live generation starts.
getQuoteSync(cache) ==
  IF Len(cache) > 0
    THEN [cache |-> Tail(cache), quote |-> Head(cache), pending |-> FALSE]
    ELSE [cache |-> cache, quote |-> NoQuote, pending |-> TRUE]

\* sendSessionEndMessage(userId, duration) up to its first suspension: either
\* in getQuote's live generation (stage "quote") or in channel.send ("send").
\* Without a target channel it returns at once (stage "none").
sendSessionEndMessage(w, u, duration, sid, tc) ==
  IF ~tc THEN [w |-> w, notif |-> NoNotif]
  ELSE LET g == getQuoteSync(w.cache)
       IN [w |-> [w EXCEPT !.cache = g.cache],
           notif |-> [userId |-> u, duration |-> duration, sid |-> sid,
                      named |-> MapHas(w.mon, u),
                      stage |-> IF g.pending THEN "quote" ELSE "send",
                      quote |-> g.quote,
                      attempt |-> IF g.pending THEN 1 ELSE 0]]

\* A removal that deletes the tracked entry and leaves the session record.
DeleteUserKeepsRecord(w, u) == [w EXCEPT !.mon = MapDelete(@, u)]

\* Map.delete(userId) on both maps (utils.ts 751-752). A polling pass that is
\* iterating monitoredUsers skips the deleted entry; the shutdown drain keeps
\* its reference to the deleted record object, which nothing changes any more.
DeleteUser(w, u) ==
  LET j == IF MapHas(w.mon, u) THEN MapIndex(w.mon, u) ELSE 0
      sid == ActiveSid(w, u)
      st == IF MapHas(w.states, u) THEN MapGet(w.states, u) ELSE NewSessionState(u)
      freeze(e) == IF e.userId = u /\ e.live
                     THEN [e EXCEPT !.live = FALSE, !.startTime = st.startTime, !.sid = sid]
                     ELSE e
  IN [w EXCEPT !.mon = MapDelete(@, u),
               !.states = MapDelete(@, u),
               !.polls = [p \in DOMAIN @ |->
                            IF @[p].active /\ j > 0 /\ j < @[p].next
                              THEN [@[p] EXCEPT !.next = @ - 1] ELSE @[p]],
               !.stop.queue = [i \in 1..Len(@) |-> freeze(@[i])],
               !.hist[u] = IF sid > 0 THEN [@ EXCEPT ![sid].dropped = TRUE] ELSE @,
               !.sigs[u] = NewSigs]

\* One polling pass from its current position to its next suspension
\* (utils.ts 857-864). pres[u] is the cached member.presence read for u.
RECURSIVE PollRun(_, _, _, _, _)
PollRun(w, p, pres, t, tc) ==
  LET i == w.polls[p].next IN
  IF i > Len(w.mon)
    THEN [w |-> [w EXCEPT !.polls[p] = IdlePoll], notif |-> NoNotif, capped |-> FALSE]
    ELSE
      LET u == w.mon[i].userId
          w1 == [w EXCEPT !.polls[p].next = i + 1]
      IN IF pres[u] = "none" THEN PollRun(w1, p, pres, t, tc)
         ELSE IF presenceThrows(pres[u])
           THEN \* the catch around the whole loop (utils.ts 871-879) ends the pass
                [w |-> [w EXCEPT !.polls[p] = IdlePoll], notif |-> NoNotif, capped |-> FALSE]
         ELSE
           LET r == updateSessionState(w1, u, isPlayingSatisfactoryFromPresence(pres[u]), t)
               s == sendSessionEndMessage(r.w, u, r.duration, r.sid, tc)
           IN IF r.capped THEN [w |-> w, notif |-> NoNotif, capped |-> TRUE]
              ELSE IF r.emit /\ s.notif.stage # "none"
                THEN [w |-> s.w, notif |-> s.notif, capped |-> FALSE]
                ELSE PollRun(r.w, p, pres, t, tc)

\* The condition under which a removal ends the session first (utils.ts 746).
\* A forced end that announces every identity it removes.
ForcedEndAlways(w, u) == MapHas(w.states, u)

ForcedEnd(w, u) ==
  /\ MapHas(w.states, u)
  /\ MapGet(w.states, u).isPlaying
  /\ MapGet(w.states, u).startTime # Null

\* An add loop that sets a fresh record for every member with access.
RECURSIVE AddUsersResetsExisting(_, _)
AddUsersResetsExisting(w, ord) ==
  IF ord = <<>> THEN w
  ELSE LET u == Head(ord)
       IN AddUsersResetsExisting(
            [w EXCEPT !.mon = MapSet(@, u, [userId |-> u]),
                      !.states = MapSet(@, u, NewSessionState(u))],
            Tail(ord))

\* Add new users (utils.ts 702-739), in the order the member cache yields them.
RECURSIVE AddUsers(_, _)
AddUsers(w, ord) ==
  IF ord = <<>> THEN w
  ELSE LET u == Head(ord)
       IN AddUsers(
            IF MapHas(w.mon, u) THEN w
            ELSE [w EXCEPT !.mon = MapSet(@, u, [userId |-> u]),
                           !.states = MapSet(@, u, NewSessionState(u)),
                           !.sigs[u] = NewSigs],
            Tail(ord))

\* Remove users who no longer have access (utils.ts 742-760), from the head
\* of ref.current to the next suspension.
RECURSIVE RemoveUsers(_, _, _, _)
RemoveUsers(w, ref, t, tc) ==
  IF ref.current = <<>>
    THEN [w |-> w, ref |-> IdleRefresh, notif |-> NoNotif]
    ELSE
      LET u == Head(ref.current)
          rest == [ref EXCEPT !.current = Tail(@)]
      IN IF u \in ref.newIds THEN RemoveUsers(w, rest, t, tc)
         ELSE IF ForcedEnd(w, u)
           THEN LET w1 == CountEvent(w, u, ActiveSid(w, u), "removal")
                    s == sendSessionEndMessage(
                           w1, u, t - MapGet(w.states, u).startTime, ActiveSid(w, u), tc)
                IN IF s.notif.stage = "none"
                     THEN RemoveUsers(DeleteUser(s.w, u), rest, t, tc)
                     ELSE [w |-> s.w, ref |-> [ref EXCEPT !.stage = "remove"],
                           notif |-> s.notif]
           ELSE RemoveUsers(DeleteUser(w, u), rest, t, tc)

\* handleShutdownSessions: the filter that builds activeSessions (utils.ts 1021-1023).
ActiveSessions(w) ==
  LET act == SelectSeq(w.states, LAMBDA st : st.isPlaying /\ st.startTime # Null)
  IN [i \in 1..Len(act) |->
        [userId |-> act[i].userId, live |-> TRUE, startTime |-> Null, sid |-> 0]]

\* History: the sessions that are Active when stop() is requested.
ActiveAtStop(w) == {<<u, ActiveSid(w, u)>> : u \in {x \in MapKeys(w.states) : ActiveSid(w, x) > 0}}

\* handleShutdownSessions: the loop over activeSessions (utils.ts 1033-1038),
\* from the head of the queue to the next suspension.
RECURSIVE DrainRun(_, _, _)
DrainRun(w, t, tc) ==
  IF w.stop.queue = <<>>
    THEN [w |-> [w EXCEPT !.stop.stage = "done"], notif |-> NoNotif]
    ELSE
      LET e == Head(w.stop.queue)
          u == e.userId
          w1 == [w EXCEPT !.stop.queue = Tail(@)]
          startTime == IF e.live THEN MapGet(w.states, u).startTime ELSE e.startTime
          sid == IF e.live THEN ActiveSid(w, u) ELSE e.sid
      IN IF startTime # Null
           THEN LET s == sendSessionEndMessage(
                           CountEvent(w1, u, sid, "shutdown"), u, t - startTime, sid, tc)
                IN IF s.notif.stage = "none" THEN DrainRun(s.w, t, tc)
                   ELSE [w |-> s.w, notif |-> s.notif]
           ELSE DrainRun(w1, t, tc)

\* A generateQuote that caches the fallback quote it returns.
generateQuoteCachesFallback(cache, nextId, ok, fallback) ==
  IF ok
    THEN [cache |-> cacheQuote(cache, [id |-> nextId, isFallback |-> FALSE]),
          quote |-> [id |-> nextId, isFallback |-> FALSE], nextId |-> nextId + 1,
          threw |-> FALSE]
    ELSE [cache |-> cacheQuote(cache, fallback), quote |-> fallback, nextId |-> nextId,
          threw |-> FALSE]

\* A generateQuote whose catch block returns nothing.
generateQuoteNoFallback(cache, nextId, ok, fallback) ==
  IF ok
    THEN [cache |-> cacheQuote(cache, [id |-> nextId, isFallback |-> FALSE]),
          quote |-> [id |-> nextId, isFallback |-> FALSE], nextId |-> nextId + 1,
          threw |-> FALSE]
    ELSE [cache |-> cache, quote |-> NoQuote, nextId |-> nextId, threw |-> FALSE]

\* A generateQuote without its catch block: the failure reaches the caller.
generateQuoteRethrows(cache, nextId, ok, fallback) ==
  IF ok
    THEN [cache |-> cacheQuote(cache, [id |-> nextId, isFallback |-> FALSE]),
          quote |-> [id |-> nextId, isFallback |-> FALSE], nextId |-> nextId + 1,
          threw |-> FALSE]
    ELSE [cache |-> cache, quote |-> NoQuote, nextId |-> nextId, threw |-> TRUE]

\* generateQuote once fetchQuoteFromApi has settled (gemini.ts 54-70): a fetched
\* quote is cached and returned; a failure is caught and a fallback quote is
\* returned, so the call never throws.
generateQuote(cache, nextId, ok, fallback) ==
  IF ok
    THEN [cache |-> cacheQuote(cache, [id |-> nextId, isFallback |-> FALSE]),
          quote |-> [id |-> nextId, isFallback |-> FALSE], nextId |-> nextId + 1,
          threw |-> FALSE]
    ELSE [cache |-> cache, quote |-> fallback, nextId |-> nextId, threw |-> FALSE]

\* A settlement that rolls the transition back when the delivery failed.
deliveryRollsBack(w, n, ok) ==
  IF ok \/ ~MapHas(w.states, n.userId) THEN [w EXCEPT !.sendFailed = @ \/ ~ok]
  ELSE [w EXCEPT !.sendFailed = TRUE,
                 !.states = MapSet(@, n.userId,
                                   [MapGet(w.states, n.userId) EXCEPT !.isPlaying = TRUE])]

deliverySettled(w, n, ok) == [w EXCEPT !.sendFailed = @ \/ ~ok]

\* The members of S in the order the member cache yields them.
InCacheOrder(S) == SelectSeq(MemberOrder, LAMBDA u : u \in S)

\* No more than MaxInflight notifications are in flight.
InflightOK(n) == Cardinality({o \in Owners : n[o].stage # "none"}) <= MaxInflight

\* -------------------------------------------------------------------- Init

\* No text function has been called.
NoCall == [fn |-> "none"]

Init ==
  /\ now = 1
  /\ phase = "constructed"
  /\ targetChannel = FALSE
  /\ monitoredUsers = <<>>
  /\ sessionStates = <<>>
  /\ isShuttingDown = FALSE
  /\ pollingInterval = "null"
  /\ memberCheckInterval = "null"
  /\ exited = FALSE
  /\ quoteCache = <<>>
  /\ nextQuoteId = 1
  /\ notifs = [o \in Owners |-> NoNotif]
  /\ polls = [o \in PollIds |-> IdlePoll]
  /\ refreshes = [o \in RefreshIds |-> IdleRefresh]
  /\ stopTask = IdleStop
  /\ preloadPending = 0
  /\ hist = [u \in Users |-> <<>>]
  /\ sigs = [u \in Users |-> NewSigs]
  /\ spurious = 0
  /\ sendFailed = FALSE
  /\ qcalls = <<>>
  /\ call = NoCall

worldVars == <<sessionStates, monitoredUsers, quoteCache, hist, sigs, spurious, sendFailed,
               polls, stopTask>>
controlVars == <<phase, targetChannel, isShuttingDown, pollingInterval, memberCheckInterval,
                 exited, preloadPending>>

\* ----------------------------------------------------------------- actions

\* Time passes.
Tick ==
  /\ ~exited
  /\ now < MaxTime
  /\ now' = now + 1
  /\ UNCHANGED <<call, qcalls, worldVars, controlVars, nextQuoteId, notifs, refreshes>>

\* onReady, from the "ready" event to its first suspension after
\* findTargetChannel: the first updateMonitoredUsers awaits the member fetch.
OnReady ==
  /\ ~exited
  /\ phase = "constructed"
  /\ \E found \in BOOLEAN :
       IF found
         THEN /\ targetChannel' = TRUE
              /\ phase' = "fetching"
              /\ refreshes' = [refreshes EXCEPT ![<<"refresh", 1>>] =
                                 [IdleRefresh EXCEPT !.stage = "fetch", !.owner = "ready"]]
         ELSE /\ phase' = "failed"
              /\ UNCHANGED <<targetChannel, refreshes>>
  /\ UNCHANGED <<call, qcalls, now, worldVars, isShuttingDown, pollingInterval, memberCheckInterval,
                 exited, preloadPending, nextQuoteId, notifs>>

\* What follows a finished updateMonitoredUsers: onReady goes on to preloadQuotes(5).
AfterRefresh(owner, finished) ==
  IF finished /\ owner = "ready"
    THEN phase' = "preloading" /\ preloadPending' = PreloadCount
    ELSE UNCHANGED <<phase, preloadPending>>

\* A failed fetch that drops what was tracked.
fetchFailedForgetsTracked(w) == [w EXCEPT !.mon = <<>>, !.states = <<>>]

\* The catch of guild.members.fetch (utils.ts 681-696): it logs and returns.
fetchFailed(w) == w

\* guild.members.fetch rejects (timeout, missing permission): the refresh
\* returns and its caller goes on.
RefreshFetchFails(o) ==
  /\ refreshes' = [refreshes EXCEPT ![o] = IdleRefresh]
  /\ AfterRefresh(refreshes[o].owner, TRUE)
  /\ Commit(fetchFailed(World))
  /\ UNCHANGED notifs

\* A roster walk that takes every member for one with access.
newUserIdsEveryone(visible) == Users

\* The members the roster walk puts into newUserIds (utils.ts 702-708): those
\* that are no bot and may view the target channel.
newUserIds(visible) == {m \in visible : m \notin Bots}

\* guild.members.fetch resolves, with visible the members of the roster that
\* may view the target channel: the add loop and the removal loop run to the
\* end or to the first forced end.
RefreshFetchedWith(o, visible) ==
  LET access == newUserIds(visible)
      ord == InCacheOrder(access)
      ref == [refreshes[o] EXCEPT
                !.current = [i \in 1..Len(monitoredUsers) |-> monitoredUsers[i].userId],
                !.newIds = access]
      r == RemoveUsers(AddUsers(World, ord), ref, now, targetChannel)
  IN /\ Commit(r.w)
     /\ refreshes' = [refreshes EXCEPT ![o] = r.ref]
     /\ notifs' = [notifs EXCEPT ![o] = r.notif]
     /\ InflightOK(notifs')
     /\ AfterRefresh(refreshes[o].owner, r.ref.stage = "idle")

\* updateMonitoredUsers resumes from guild.members.fetch (utils.ts 680-760).
RefreshFetched(o) ==
  /\ ~exited
  /\ refreshes[o].stage = "fetch"
  /\ \E fetched \in BOOLEAN :
       IF ~fetched
         THEN RefreshFetchFails(o)
         ELSE \E visible \in SUBSET Roster : RefreshFetchedWith(o, visible)
  /\ UNCHANGED <<call, qcalls, now, targetChannel, isShuttingDown, pollingInterval, memberCheckInterval,
                 exited, nextQuoteId>>

\* updateMonitoredUsers resumes from the forced end's sendSessionEndMessage:
\* it deletes the identity and goes on removing (utils.ts 751-760).
RefreshResume(o) ==
  /\ ~exited
  /\ refreshes[o].stage = "remove"
  /\ notifs[o].stage = "send"
  /\ \E ok \in BOOLEAN :
       LET u == Head(refreshes[o].current)
           w1 == DeleteUser(deliverySettled(World, notifs[o], ok), u)
           r == RemoveUsers(w1, [refreshes[o] EXCEPT !.current = Tail(@)], now, targetChannel)
       IN /\ Commit(r.w)
          /\ refreshes' = [refreshes EXCEPT ![o] = r.ref]
          /\ notifs' = [notifs EXCEPT ![o] = r.notif]
          /\ AfterRefresh(refreshes[o].owner, r.ref.stage = "idle")
  /\ UNCHANGED <<call, qcalls, now, targetChannel, isShuttingDown, pollingInterval, memberCheckInterval,
                 exited, nextQuoteId>>

\* One generateQuote of onReady's preloadQuotes(5) settles; when the last one
\* has, onReady starts the two timers (utils.ts 515-521).
PreloadReturns ==
  /\ ~exited
  /\ phase = "preloading"
  /\ preloadPending > 0
  /\ \E ok \in BOOLEAN, fallback \in FallbackQuotes :
       /\ ok => nextQuoteId <= MaxLiveQuotes
       /\ LET g == generateQuote(quoteCache, nextQuoteId, ok, fallback)
          IN quoteCache' = g.cache /\ nextQuoteId' = g.nextId
  /\ preloadPending' = preloadPending - 1
  /\ IF preloadPending = 1
       THEN phase' = "running" /\ pollingInterval' = "set" /\ memberCheckInterval' = "set"
       ELSE UNCHANGED <<phase, pollingInterval, memberCheckInterval>>
  /\ UNCHANGED <<call, qcalls, now, targetChannel, monitoredUsers, sessionStates, isShuttingDown, exited,
                 notifs, polls, refreshes, stopTask, hist, sigs, spurious, sendFailed>>

\* The polling timer fires (utils.ts 838-842) and the pass runs to its
\* first suspension.
PollTick ==
  /\ ~exited
  /\ pollingInterval = "set"
  /\ IF isShuttingDown THEN UNCHANGED <<worldVars, notifs>>
     ELSE /\ \E o \in PollIds : ~polls[o].active
          /\ LET o == FirstFree({x \in PollIds : ~polls[x].active})
                 w0 == [World EXCEPT !.polls[o] = [active |-> TRUE, next |-> 1]]
             IN \E pres \in [Users -> PresenceKinds] :
                  LET r == PollRun(w0, o, pres, now, targetChannel)
                  IN /\ ~r.capped
                     /\ Commit(r.w)
                     /\ notifs' = [notifs EXCEPT ![o] = r.notif]
                     /\ InflightOK(notifs')
  /\ UNCHANGED <<call, qcalls, now, controlVars, nextQuoteId, refreshes>>

\* A polling pass resumes from updateSessionState's sendSessionEndMessage and
\* goes on with the identities it has not visited.
PollResume(o) ==
  /\ ~exited
  /\ polls[o].active
  /\ notifs[o].stage = "send"
  /\ \E ok \in BOOLEAN, pres \in [Users -> PresenceKinds] :
       LET r == PollRun(deliverySettled(World, notifs[o], ok), o, pres, now, targetChannel)
       IN /\ ~r.capped
          /\ Commit(r.w)
          /\ notifs' = [notifs EXCEPT ![o] = r.notif]
  /\ UNCHANGED <<call, qcalls, now, controlVars, nextQuoteId, refreshes>>

\* The member-check timer fires (utils.ts 650-654): updateMonitoredUsers
\* runs to its await of guild.members.fetch.
MemberCheckTickUnguarded ==
  /\ ~exited
  /\ memberCheckInterval = "set"
  /\ IF ~targetChannel THEN UNCHANGED refreshes
     ELSE /\ \E o \in RefreshIds : refreshes[o].stage = "idle"
          /\ LET o == FirstFree({x \in RefreshIds : refreshes[x].stage = "idle"})
             IN refreshes' = [refreshes EXCEPT ![o] =
                                [IdleRefresh EXCEPT !.stage = "fetch", !.owner = "timer"]]
  /\ UNCHANGED <<call, qcalls, now, worldVars, controlVars, nextQuoteId, notifs>>

MemberCheckTick ==
  /\ ~exited
  /\ memberCheckInterval = "set"
  /\ IF isShuttingDown \/ ~targetChannel THEN UNCHANGED refreshes
     ELSE /\ \E o \in RefreshIds : refreshes[o].stage = "idle"
          /\ LET o == FirstFree({x \in RefreshIds : refreshes[x].stage = "idle"})
             IN refreshes' = [refreshes EXCEPT ![o] =
                                [IdleRefresh EXCEPT !.stage = "fetch", !.owner = "timer"]]
  /\ UNCHANGED <<call, qcalls, now, worldVars, controlVars, nextQuoteId, notifs>>

\* A presence handler that takes every identity for a tracked one and gives
\* it a record when it has none.
PresenceUpdateUntracked(u, presence) ==
  /\ ~exited
  /\ phase # "constructed"
  /\ presence # "none" /\ ~presenceThrows(presence)
  /\ LET w0 == IF MapHas(sessionStates, u) THEN World
               ELSE [World EXCEPT !.states = MapSet(@, u, NewSessionState(u))]
         r == updateSessionState(w0, u, isPlayingSatisfactoryFromPresence(presence), now)
         s == sendSessionEndMessage(r.w, u, r.duration, r.sid, targetChannel)
     IN /\ ~r.capped
        /\ IF r.emit /\ s.notif.stage # "none"
             THEN /\ \E o \in HandlerIds : notifs[o].stage = "none"
                  /\ notifs' = [notifs EXCEPT
                                  ![FirstFree({x \in HandlerIds :
                                                notifs[x].stage = "none"})] = s.notif]
                  /\ InflightOK(notifs')
                  /\ Commit(s.w)
             ELSE Commit(r.w) /\ UNCHANGED notifs
  /\ UNCHANGED <<call, qcalls, now, phase, targetChannel, isShuttingDown, pollingInterval,
                 memberCheckInterval, preloadPending, exited, nextQuoteId, refreshes>>

\* onPresenceUpdate (utils.ts 577-610), to the suspension in the notification.
\* presence "none" stands for a payload that is no object or names no user.
\* When isPlayingSatisfactoryFromPresence throws, the handler's promise rejects
\* with nothing to catch it and the unhandledRejection handler exits the
\* process (utils.ts 1089-1092).
PresenceUpdate(u, presence) ==
  /\ ~exited
  /\ phase # "constructed"
  /\ IF presence = "none" \/ ~MapHas(monitoredUsers, u)
       THEN UNCHANGED <<worldVars, notifs, exited>>
       ELSE IF presenceThrows(presence)
         THEN exited' = TRUE /\ UNCHANGED <<worldVars, notifs>>
       ELSE /\ UNCHANGED exited
            /\ LET r == updateSessionState(
                         World, u, isPlayingSatisfactoryFromPresence(presence), now)
                   s == sendSessionEndMessage(r.w, u, r.duration, r.sid, targetChannel)
               IN /\ ~r.capped
                  /\ IF r.emit /\ s.notif.stage # "none"
                       THEN /\ \E o \in HandlerIds : notifs[o].stage = "none"
                            /\ notifs' = [notifs EXCEPT
                                            ![FirstFree({x \in HandlerIds :
                                                          notifs[x].stage = "none"})] = s.notif]
                            /\ InflightOK(notifs')
                            /\ Commit(s.w)
                       ELSE Commit(r.w) /\ UNCHANGED notifs
  /\ UNCHANGED <<call, qcalls, now, phase, targetChannel, isShuttingDown, pollingInterval,
                 memberCheckInterval, preloadPending, nextQuoteId, refreshes>>

\* getQuote's live generation settles inside a notification, which builds its
\* message and calls channel.send (utils.ts 954-984).
QuoteReturns(o) ==
  /\ ~exited
  /\ notifs[o].stage = "quote"
  /\ \E ok \in BOOLEAN, fallback \in FallbackQuotes :
       /\ ok => nextQuoteId <= MaxLiveQuotes
       /\ LET g == generateQuote(quoteCache, nextQuoteId, ok, fallback)
          IN /\ quoteCache' = g.cache
             /\ nextQuoteId' = g.nextId
             /\ notifs' = [notifs EXCEPT ![o].stage = "send", ![o].quote = g.quote,
                                         ![o].attempt = 0]
  /\ UNCHANGED <<call, qcalls, now, controlVars, monitoredUsers, sessionStates, hist, sigs, spurious,
                 sendFailed, polls, stopTask, refreshes>>

\* channel.send settles for a notification a presence handler awaits: the
\* handler logs and ends (utils.ts 984-1014, 920-928).
HandlerResume(o) ==
  /\ ~exited
  /\ notifs[o].stage = "send"
  /\ \E ok \in BOOLEAN : Commit(deliverySettled(World, notifs[o], ok))
  /\ notifs' = [notifs EXCEPT ![o] = NoNotif]
  /\ UNCHANGED <<call, qcalls, now, controlVars, nextQuoteId, refreshes>>

\* A signal handler whose stop() starts its drain whether or not a shutdown
\* is under way.
SignalDrainsAgain ==
  /\ ~exited
  /\ isShuttingDown' = TRUE
  /\ pollingInterval' = IF pollingInterval = "set" THEN "cleared" ELSE pollingInterval
  /\ memberCheckInterval' =
       IF memberCheckInterval = "set" THEN "cleared" ELSE memberCheckInterval
  /\ LET w0 == [World EXCEPT !.stop = [stage |-> "drain",
                                       queue |-> ActiveSessions(World),
                                       atStop |-> ActiveAtStop(World)]]
         r == DrainRun(w0, now, targetChannel)
     IN /\ Commit(r.w)
        /\ notifs' = [notifs EXCEPT ![StopId] = r.notif]
        /\ exited' = (r.w.stop.stage = "done")
  /\ UNCHANGED <<call, qcalls, now, phase, targetChannel, preloadPending, nextQuoteId, refreshes>>

\* SIGINT or SIGTERM (utils.ts 1071-1081): await bot.stop(), then process.exit(0).
\* stop() (utils.ts 448-478) returns at once when a shutdown is under way.
Signal ==
  /\ ~exited
  /\ IF isShuttingDown
       THEN /\ exited' = TRUE
            /\ UNCHANGED <<worldVars, notifs, isShuttingDown, pollingInterval,
                           memberCheckInterval>>
       ELSE /\ isShuttingDown' = TRUE
            /\ pollingInterval' = IF pollingInterval = "set" THEN "cleared" ELSE pollingInterval
            /\ memberCheckInterval' =
                 IF memberCheckInterval = "set" THEN "cleared" ELSE memberCheckInterval
            /\ LET w0 == [World EXCEPT !.stop = [stage |-> "drain",
                                                 queue |-> ActiveSessions(World),
                                                 atStop |-> ActiveAtStop(World)]]
                   r == DrainRun(w0, now, targetChannel)
               IN /\ Commit(r.w)
                  /\ notifs' = [notifs EXCEPT ![StopId] = r.notif]
                  /\ InflightOK(notifs')
                  /\ exited' = (r.w.stop.stage = "done")
  /\ UNCHANGED <<call, qcalls, now, phase, targetChannel, preloadPending, nextQuoteId, refreshes>>

\* handleShutdownSessions resumes from a notification; after the last one
\* stop() destroys the client and the signal handler exits the process.
StopResume ==
  /\ ~exited
  /\ stopTask.stage = "drain"
  /\ notifs[StopId].stage = "send"
  /\ \E ok \in BOOLEAN :
       LET r == DrainRun(deliverySettled(World, notifs[StopId], ok), now, targetChannel)
       IN /\ Commit(r.w)
          /\ notifs' = [notifs EXCEPT ![StopId] = r.notif]
          /\ exited' = (r.w.stop.stage = "done")
  /\ UNCHANGED <<call, qcalls, now, phase, targetChannel, isShuttingDown, pollingInterval,
                 memberCheckInterval, preloadPending, nextQuoteId, refreshes>>

Next ==
  \/ Tick
  \/ OnReady
  \/ \E o \in RefreshIds : RefreshFetched(o)
  \/ \E o \in RefreshIds : RefreshResume(o)
  \/ PreloadReturns
  \/ PollTick
  \/ \E o \in PollIds : PollResume(o)
  \/ MemberCheckTick
  \/ \E u \in Users, presence \in PresenceKinds : PresenceUpdate(u, presence)
  \/ \E o \in Owners : QuoteReturns(o)
  \/ \E o \in HandlerIds : HandlerResume(o)
  \/ Signal
  \/ StopResume

Spec == Init /\ [][Next]_vars

\* ------------------------------------------------------------- LiveSpec
\* The bot with the live generation of a notification's quote taken attempt
\* by attempt (withRetry, utils.ts 197-215) instead of as one step, at one
\* instant of time, under the assumption that every attempt, every backoff
\* timer and every delivery the shutdown drain awaits settles.

\* A retry loop that never takes an attempt for its last.
lastAttemptNever(attempt) == FALSE

\* attempt === config.maxAttempts (utils.ts 204)
lastAttempt(attempt) == attempt = maxAttempts

\* One attempt of the generation that owner o's notification awaits settles:
\* a quote, or the last failure, ends getQuote; another failure starts the
\* backoff timer.
QuoteAttempt(o) ==
  /\ ~exited
  /\ notifs[o].stage = "quote"
  /\ \E ok \in BOOLEAN, fallback \in FallbackQuotes :
       /\ ok => nextQuoteId <= MaxLiveQuotes
       /\ IF ok \/ lastAttempt(notifs[o].attempt)
            THEN LET g == generateQuote(quoteCache, nextQuoteId, ok, fallback)
                 IN /\ quoteCache' = g.cache
                    /\ nextQuoteId' = g.nextId
                    /\ notifs' = [notifs EXCEPT ![o].stage = "send", ![o].quote = g.quote,
                                                ![o].attempt = 0]
            ELSE /\ notifs' = [notifs EXCEPT ![o].stage = "backoff"]
                 /\ UNCHANGED <<quoteCache, nextQuoteId>>
  /\ UNCHANGED <<call, qcalls, now, controlVars, monitoredUsers, sessionStates, hist, sigs, spurious,
                 sendFailed, polls, stopTask, refreshes>>

\* The backoff timer of owner o's generation fires: the next attempt starts.
RetryTimer(o) ==
  /\ ~exited
  /\ notifs[o].stage = "backoff"
  /\ notifs' = [notifs EXCEPT ![o].stage = "quote", ![o].attempt = @ + 1]
  /\ UNCHANGED <<call, qcalls, now, controlVars, worldVars, nextQuoteId, refreshes>>

LiveNext ==
  \/ OnReady
  \/ \E o \in RefreshIds : RefreshFetched(o)
  \/ \E o \in RefreshIds : RefreshResume(o)
  \/ PreloadReturns
  \/ PollTick
  \/ \E o \in PollIds : PollResume(o)
  \/ MemberCheckTick
  \/ \E u \in Users, presence \in PresenceKinds : PresenceUpdate(u, presence)
  \/ \E o \in Owners : QuoteAttempt(o)
  \/ \E o \in Owners : RetryTimer(o)
  \/ \E o \in HandlerIds : HandlerResume(o)
  \/ Signal
  \/ StopResume

LiveSpec ==
  /\ Init
  /\ [][LiveNext]_vars
  /\ WF_vars(QuoteAttempt(StopId))
  /\ WF_vars(RetryTimer(StopId))
  /\ WF_vars(StopResume)

\* ------------------------------------------------------ the quote provider
\* QuoteSpec drives the GeminiClient alone: getQuote, generateQuote and
\* preloadQuotes are called in any order and the backend answers or fails each
\* attempt of withRetry.  The engine stands still.

messageStill == <<now, phase, targetChannel, monitoredUsers, sessionStates, isShuttingDown,
                  pollingInterval, memberCheckInterval, exited, notifs, polls, refreshes,
                  stopTask, preloadPending, hist, sigs, spurious, sendFailed>>
engineVars == <<messageStill, call>>

Min(a, b) == IF a < b THEN a ELSE b

RECURSIVE Pow(_, _)
Pow(b, e) == IF e = 0 THEN 1 ELSE b * Pow(b, e - 1)

\* A delay that does not grow with the attempts.
RetryDelayConstant(attempt) == baseDelay

\* withRetry's delay before the attempt after `attempt` (utils.ts 208-211).
RetryDelay(attempt) == Min(baseDelay * Pow(backoffMultiplier, attempt - 1), maxDelay)

\* A call that suspended in fetchQuoteFromApi's first attempt.  lastError is
\* withRetry's variable, an error being named by the attempt that threw it
\* (0: null); thrown is the error withRetry has thrown (0: none).
FetchingCall(kind, empty) ==
  [kind |-> kind, stage |-> "fetch", attempt |-> 1, delay |-> 0, cacheEmpty |-> empty,
   liveFailed |-> FALSE, threw |-> FALSE, quote |-> NoQuote, lastError |-> 0, thrown |-> 0]

\* getQuote(): a cached quote is returned at once, else generateQuote runs.
GetQuoteCall ==
  /\ Len(qcalls) < MaxCalls
  /\ LET g == getQuoteSync(quoteCache)
     IN /\ quoteCache' = g.cache
        /\ qcalls' = Append(qcalls,
                            IF g.pending THEN FetchingCall("get", TRUE)
                            ELSE [FetchingCall("get", FALSE) EXCEPT
                                    !.stage = "done", !.attempt = 0, !.quote = g.quote])
  /\ UNCHANGED <<engineVars, nextQuoteId>>

\* generateQuote() called directly.
GenerateQuoteCall ==
  /\ Len(qcalls) < MaxCalls
  /\ qcalls' = Append(qcalls, FetchingCall("generate", Len(quoteCache) = 0))
  /\ UNCHANGED <<engineVars, quoteCache, nextQuoteId>>

RECURSIVE AppendCalls(_, _, _)
AppendCalls(calls, c, count) ==
  IF count = 0 THEN calls ELSE AppendCalls(Append(calls, c), c, count - 1)

\* preloadQuotes(count): its loop starts count generateQuote calls before the
\* first of them settles (gemini.ts 96-120).
PreloadQuotesCall(count) ==
  /\ Len(qcalls) + count <= MaxCalls
  /\ qcalls' = AppendCalls(qcalls, FetchingCall("preload", Len(quoteCache) = 0), count)
  /\ UNCHANGED <<engineVars, quoteCache, nextQuoteId>>

\* The settlement of generateQuote's fetch in call i, with generateQuote's result.
Settle(i, g, failed) ==
  /\ quoteCache' = g.cache
  /\ nextQuoteId' = g.nextId
  /\ qcalls' = [qcalls EXCEPT ![i].stage = "done", ![i].quote = g.quote,
                              ![i].threw = g.threw, ![i].liveFailed = failed]

\* An attempt of withRetry returns a quote (utils.ts 199, gemini.ts 204-234).
AttemptSucceeds(i) ==
  /\ qcalls[i].stage = "fetch"
  /\ nextQuoteId <= MaxQuotes
  /\ \E fallback \in FallbackQuotes :
       Settle(i, generateQuote(quoteCache, nextQuoteId, TRUE, fallback), FALSE)
  /\ UNCHANGED engineVars

\* An attempt throws (the backend fails or returns an empty text): withRetry
\* sleeps and tries again, or rethrows after the last attempt (utils.ts 200-214).
AttemptFails(i) ==
  /\ qcalls[i].stage = "fetch"
  /\ IF qcalls[i].attempt = maxAttempts
       THEN \E fallback \in FallbackQuotes :
              LET g == generateQuote(quoteCache, nextQuoteId, FALSE, fallback)
              IN /\ quoteCache' = g.cache
                 /\ nextQuoteId' = g.nextId
                 /\ qcalls' = [qcalls EXCEPT ![i].stage = "done", ![i].quote = g.quote,
                                             ![i].threw = g.threw, ![i].liveFailed = TRUE,
                                             ![i].lastError = qcalls[i].attempt,
                                             ![i].thrown = qcalls[i].attempt]
       ELSE /\ qcalls' = [qcalls EXCEPT ![i].stage = "backoff",
                                        ![i].lastError = qcalls[i].attempt,
                                        ![i].delay = RetryDelay(qcalls[i].attempt)]
            /\ UNCHANGED <<quoteCache, nextQuoteId>>
  /\ UNCHANGED engineVars

\* The backoff timer of call i fires: the next attempt starts.
BackoffElapsed(i) ==
  /\ qcalls[i].stage = "backoff"
  /\ qcalls' = [qcalls EXCEPT ![i].stage = "fetch", ![i].attempt = @ + 1, ![i].delay = 0]
  /\ UNCHANGED <<engineVars, quoteCache, nextQuoteId>>

QuoteNext ==
  \/ GetQuoteCall
  \/ GenerateQuoteCall
  \/ \E count \in 1..MaxPreload : PreloadQuotesCall(count)
  \/ \E i \in 1..Len(qcalls) : AttemptSucceeds(i)
  \/ \E i \in 1..Len(qcalls) : AttemptFails(i)
  \/ \E i \in 1..Len(qcalls) : BackoffElapsed(i)

QuoteSpec == Init /\ [][QuoteNext]_vars

\* ------------------------------------------------------------------- texts
\* A string is the sequence of its characters.

Digits == <<"0", "1", "2", "3", "4", "5", "6", "7", "8", "9">>
DigitChars == {Digits[i] : i \in 1..Len(Digits)}
Letters == {"a", "b", "c", "d", "e", "f", "g", "h", "i", "j", "k", "l", "m", "n", "o",
            "p", "q", "r", "s", "t", "u", "v", "w", "x", "y", "z", "A", "D", "K", "P", "U"}
ZWSP == "ZWSP"                     \* U+200B, one character
BACKTICK == "BACKTICK"             \* U+0060, one character
Whitespace == {" ", "\n", "\t"}    \* what String.prototype.trim removes

\* The number a string of decimal digits denotes.
RECURSIVE DecimalValue(_)
DecimalValue(str) ==
  IF str = <<>> THEN 0
  ELSE 10 * DecimalValue(SubSeq(str, 1, Len(str) - 1))
         + (CHOOSE d \in 0..9 : Digits[d + 1] = str[Len(str)])

\* Number.prototype.toString of a non-negative integer.
RECURSIVE toString(_)
toString(n) ==
  IF n < 10 THEN <<Digits[n + 1]>> ELSE toString(n \div 10) \o <<Digits[(n % 10) + 1]>>

\* A padStart that pads nothing.
padStartNothing(str, targetLength, padChar) == str

\* String.prototype.padStart with a one-character pad string.
RECURSIVE padStart(_, _, _)
padStart(str, targetLength, padChar) ==
  IF Len(str) >= targetLength THEN str
  ELSE padStart(<<padChar>> \o str, targetLength, padChar)

\* formatDuration (utils.ts 25-34).
formatDuration(milliseconds) ==
  LET totalSeconds == milliseconds \div 1000
      hours == totalSeconds \div 3600
      minutes == (totalSeconds % 3600) \div 60
      seconds == totalSeconds % 60
  IN padStart(toString(hours), 2, "0") \o <<":">> \o padStart(toString(minutes), 2, "0")
       \o <<":">> \o padStart(toString(seconds), 2, "0")

StartsWith(str, prefix) ==
  Len(str) >= Len(prefix) /\ SubSeq(str, 1, Len(prefix)) = prefix

Drop(str, k) == SubSeq(str, k + 1, Len(str))

\* The length of the longest prefix of str made of characters of class.
RECURSIVE RunLength(_, _)
RunLength(str, class) ==
  IF str # <<>> /\ Head(str) \in class THEN 1 + RunLength(Tail(str), class) ELSE 0

\* The concatenation of the strings parts[lo..hi].
RECURSIVE Concat(_, _, _)
Concat(parts, lo, hi) ==
  IF lo > hi THEN <<>>
  ELSE IF lo = hi THEN parts[lo]
  ELSE LET mid == (lo + hi) \div 2
       IN Concat(parts, lo, mid) \o Concat(parts, mid + 1, hi)

\* str.replace(re, by) for a global regular expression whose matches cannot
\* overlap (each begins with a character that occurs nowhere else in it), so
\* that the leftmost-first scan replaces every match: MatchAt(i) is the length
\* of the match that begins at position i, 0 when there is none.
ReplaceAll(str, MatchAt, by) ==
  LET Inside(i) == \E j \in 1..(i - 1) : MatchAt[j] > i - j
  IN Concat([i \in 1..Len(str) |->
               IF MatchAt[i] > 0 THEN by ELSE IF Inside(i) THEN <<>> ELSE <<str[i]>>],
            1, Len(str))

\* replace(/([*_BACKTICK~|\\])/g, "\\$1")
MarkdownChars == {"*", "_", BACKTICK, "~", "|", "\\"}
escapeMarkdown(str) ==
  Concat([i \in 1..Len(str) |->
            IF str[i] \in MarkdownChars THEN <<"\\", str[i]>> ELSE <<str[i]>>],
         1, Len(str))

\* replace(/@(everyone|here)/g, "@" + ZWSP + "$1")
Everyone == <<"e", "v", "e", "r", "y", "o", "n", "e">>
Here == <<"h", "e", "r", "e">>
breakBroadcast(str) ==
  Concat([i \in 1..Len(str) |->
            IF str[i] = "@" /\ (StartsWith(Drop(str, i), Everyone) \/ StartsWith(Drop(str, i), Here))
              THEN <<"@", ZWSP>> ELSE <<str[i]>>],
         1, Len(str))

\* The length of the match of open, an optional character of opt, digits and
\* ">" at the start of str; 0 when there is none.
TagMatch(str, open, opt) ==
  IF ~StartsWith(str, open) THEN 0
  ELSE LET r1 == Drop(str, Len(open))
           o == IF r1 # <<>> /\ Head(r1) \in opt THEN 1 ELSE 0
           r2 == Drop(r1, o)
           d == RunLength(r2, DigitChars)
       IN IF d > 0 /\ Len(r2) > d /\ r2[d + 1] = ">" THEN Len(open) + o + d + 1 ELSE 0

\* replace(/<@[!&]?(\d+)>/g, "@" + ZWSP + "user") and
\* replace(/<#(\d+)>/g, "#" + ZWSP + "channel")
replaceTag(str, open, opt, by) ==
  ReplaceAll(str, [i \in 1..Len(str) |-> TagMatch(Drop(str, i - 1), open, opt)], by)

\* The length of the match of /<:[a-zA-Z0-9_]+:(\d+)>/ at the start of str.
EmojiMatch(str) ==
  IF ~StartsWith(str, <<"<", ":">>) THEN 0
  ELSE LET r1 == Drop(str, 2)
           n == RunLength(r1, Letters \cup DigitChars \cup {"_"})
           r2 == Drop(r1, n)
           d == IF r2 # <<>> /\ Head(r2) = ":" THEN RunLength(Tail(r2), DigitChars) ELSE 0
       IN IF n > 0 /\ d > 0 /\ Len(r2) > d + 1 /\ r2[d + 2] = ">" THEN 2 + n + 1 + d + 1
          ELSE 0

\* An emoji pass that replaces nothing.
replaceEmojiNothing(str) == str

\* replace(/<:[a-zA-Z0-9_]+:(\d+)>/g, ":emoji:")
replaceEmoji(str) ==
  ReplaceAll(str, [i \in 1..Len(str) |-> EmojiMatch(Drop(str, i - 1))],
             <<":", "e", "m", "o", "j", "i", ":">>)

\* String.prototype.trim
RECURSIVE trimEnd(_)
trimEnd(str) ==
  IF str # <<>> /\ str[Len(str)] \in Whitespace THEN trimEnd(SubSeq(str, 1, Len(str) - 1))
  ELSE str
trim(str) == trimEnd(Drop(str, RunLength(str, Whitespace)))

\* sanitizeDiscordMessage (utils.ts 131-143).
sanitizeDiscordMessage(content) ==
  trim(replaceEmoji(
         replaceTag(
           replaceTag(breakBroadcast(escapeMarkdown(content)),
                      <<"<", "@">>, {"!", "&"}, <<"@", ZWSP, "u", "s", "e", "r">>),
           <<"<", "#">>, {}, <<"#", ZWSP, "c", "h", "a", "n", "n", "e", "l">>)))

\* --------------------------------------------------------- the notification

\* What a missing property or map entry reads as; no string equals it.
Undefined == <<"undefined">>

UnknownUser == <<"U", "n", "k", "n", "o", "w", "n", " ", "U", "s", "e", "r">>
defaultName == <<"P", "i", "o", "n", "e", "e", "r">>      \* parseWorkerMapping's default (utils.ts 93)

\* a || b on strings: the empty string and undefined are falsy.
OrElse(a, b) == IF a = Undefined \/ a = <<>> THEN b ELSE a

\* getWorkerName (utils.ts 280-288), on the mapping's entry for the userId.
getWorkerName(entry, fallbackName, default) == OrElse(OrElse(entry, fallbackName), default)

\* A test that takes every identifier for a mapped one.
hasCustomWorkerNameAlways(entry) == TRUE

\* this.config.workerMapping.mapping[userId] !== undefined (utils.ts 968-969)
hasCustomWorkerName(entry) == entry # Undefined

Gt3 == <<">", ">", ">", " ">>
HasEndedTheir == <<" ", "h", "a", "s", " ", "e", "n", "d", "e", "d", " ", "t", "h", "e", "i", "r", " ">>
Shift == <<" ", "s", "h", "i", "f", "t", "!">>

\* The text sendSessionEndMessage hands to targetChannel.send (utils.ts
\* 941-984): username is the monitored user's name or Undefined when the map
\* has no such user, entry the mapping's entry for the userId, duration the
\* session's length in ms and text the quote's text.
sessionEndMessage(username, entry, duration, text) ==
  LET memberName == OrElse(username, UnknownUser)
      workerName == getWorkerName(entry, Undefined, defaultName)
      formattedDuration == formatDuration(duration)
      message ==
        IF hasCustomWorkerName(entry)
          THEN Gt3 \o memberName \o <<" ", "\"">> \o workerName \o <<"\"">> \o HasEndedTheir
                 \o formattedDuration \o Shift \o <<"\n", "*">> \o text \o <<"*">>
          ELSE Gt3 \o memberName \o HasEndedTheir
                 \o formattedDuration \o Shift \o <<"\n", "*">> \o text \o <<"*">>
  IN sanitizeDiscordMessage(message)

\* ------------------------------------------------------------- MessageSpec
\* A behaviour of MessageSpec makes one call of a text function on inputs
\* from the sets below and keeps the call with its result.  The engine and
\* the quote provider stand still.

Hours == {0, 3, 99, 100, 500}
Minutes == {0, 12, 59}
Seconds == {0, 45, 59}
Millis == {0, 999}
Durations ==
  {h * 3600000 + m * 60000 + sec * 1000 + ms :
     <<h, m, sec, ms>> \in Hours \X Minutes \X Seconds \X Millis}
SessionLengths == {0, 11565000, 360000000}

Usernames == {Undefined, <<"a", "n", "n">>, <<"a", "_", "b">>}
Entries == {Undefined, <<>>, defaultName, <<"A", "c", "e">>}
QuoteTexts == {<<"K", "e", "e", "p", " ", "g", "o", "i", "n", "g", ".">>, <<"D", "o", " ", "*", "m", "o", "r", "e", "*", " ", "@", "h", "e", "r", "e", " ">>}

FormatDurationCall ==
  /\ call = NoCall
  /\ \E ms \in Durations :
       call' = [fn |-> "formatDuration", ms |-> ms, result |-> formatDuration(ms)]
  /\ UNCHANGED <<qcalls, quoteCache, nextQuoteId, messageStill>>

SessionEndMessageCall ==
  /\ call = NoCall
  /\ \E username \in Usernames, entry \in Entries, ms \in SessionLengths, text \in QuoteTexts :
       call' = [fn |-> "sendSessionEndMessage", username |-> username, entry |-> entry,
                ms |-> ms, text |-> text,
                result |-> sessionEndMessage(username, entry, ms, text)]
  /\ UNCHANGED <<qcalls, quoteCache, nextQuoteId, messageStill>>

MessageNext ==
  \/ FormatDurationCall
  \/ SessionEndMessageCall

MessageSpec == Init /\ [][MessageNext]_vars

\* ------------------------------------------------------------ configuration

NaN == [nan |-> TRUE, val |-> 0]
Number(n) == [nan |-> FALSE, val |-> n]

\* parseInt(string) without a radix, on decimal text: leading white space is
\* skipped, a sign is read, then the longest run of digits; NaN when there
\* is no digit.
parseInt(str) ==
  LET s1 == Drop(str, RunLength(str, Whitespace))
      signed == s1 # <<>> /\ Head(s1) \in {"+", "-"}
      s2 == IF signed THEN Tail(s1) ELSE s1
      d == RunLength(s2, DigitChars)
      magnitude == DecimalValue(SubSeq(s2, 1, d))
  IN IF d = 0 THEN NaN
     ELSE Number(IF signed /\ Head(s1) = "-" THEN 0 - magnitude ELSE magnitude)

\* The environment variables parseBotConfig requires (utils.ts 225-230).
requiredEnvVars == <<"DISCORD_TOKEN", "CHANNEL_ID", "GEMINI_API_KEY", "LOCAL_USER_ID">>

LogLevels == {<<"e", "r", "r", "o", "r">>, <<"w", "a", "r", "n">>, <<"i", "n", "f", "o">>, <<"d", "e", "b", "u", "g">>}

Threw(message) == [ok |-> FALSE, error |-> message]

\* JSON.parse on the JSON texts the mapping is given as: an object or an array
\* of scalars, or a scalar, with strings free of escapes; any other text is a
\* SyntaxError.  A token is a punctuation mark, a string, a number or null.
Punctuation == {"{", "}", "[", "]", ":", ","}
StringChars == Letters \cup DigitChars \cup {" ", "_"}
Scalars == {"string", "number", "null"}
Token(t, str) == [t |-> t, str |-> str]

RECURSIVE Tokens(_)
Tokens(str) ==
  IF str = <<>> THEN <<>>
  ELSE LET c == Head(str)
       IN IF c \in Whitespace THEN Tokens(Tail(str))
          ELSE IF c \in Punctuation THEN <<Token(c, <<>>)>> \o Tokens(Tail(str))
          ELSE IF c = "\""
            THEN LET n == RunLength(Tail(str), StringChars)
                 IN IF Len(str) >= n + 2 /\ str[n + 2] = "\""
                      THEN <<Token("string", SubSeq(str, 2, n + 1))>> \o Tokens(Drop(str, n + 2))
                      ELSE <<Token("bad", <<>>)>>
          ELSE IF c \in DigitChars
            THEN LET n == RunLength(str, DigitChars)
                 IN <<Token("number", SubSeq(str, 1, n))>> \o Tokens(Drop(str, n))
          ELSE IF StartsWith(str, <<"n", "u", "l", "l">>)
            THEN <<Token("null", <<>>)>> \o Tokens(Drop(str, 4))
          ELSE <<Token("bad", <<>>)>>

\* The members of an object: "key": scalar, separated by commas.
RECURSIVE Members(_)
Members(toks) ==
  IF Len(toks) >= 3 /\ toks[1].t = "string" /\ toks[2].t = ":" /\ toks[3].t \in Scalars
    THEN LET e == [key |-> toks[1].str, value |-> toks[3]]
         IN IF Len(toks) = 3 THEN [ok |-> TRUE, entries |-> <<e>>]
            ELSE IF toks[4].t = ","
              THEN LET r == Members(Drop(toks, 4))
                   IN [ok |-> r.ok, entries |-> <<e>> \o r.entries]
              ELSE [ok |-> FALSE, entries |-> <<>>]
    ELSE [ok |-> FALSE, entries |-> <<>>]

\* The elements of an array: scalars separated by commas; element i has the
\* key i - 1.
RECURSIVE Elements(_, _)
Elements(toks, index) ==
  IF Len(toks) >= 1 /\ toks[1].t \in Scalars
    THEN LET e == [key |-> toString(index), value |-> toks[1]]
         IN IF Len(toks) = 1 THEN [ok |-> TRUE, entries |-> <<e>>]
            ELSE IF toks[2].t = ","
              THEN LET r == Elements(Drop(toks, 2), index + 1)
                   IN [ok |-> r.ok, entries |-> <<e>> \o r.entries]
              ELSE [ok |-> FALSE, entries |-> <<>>]
    ELSE [ok |-> FALSE, entries |-> <<>>]

JSONValue(type, entries) == [type |-> type, entries |-> entries]
SyntaxError == JSONValue("SyntaxError", <<>>)

\* JSON.parse(text): the value, with Object.entries of an object or array.
JSONparse(text) ==
  LET toks == Tokens(text)
      n == Len(toks)
      inner == SubSeq(toks, 2, n - 1)
  IN IF n = 0 THEN SyntaxError
     ELSE IF n = 1
       THEN IF toks[1].t \in Scalars THEN JSONValue(toks[1].t, <<>>) ELSE SyntaxError
     ELSE IF toks[1].t = "{" /\ toks[n].t = "}"
       THEN IF n = 2 THEN JSONValue("object", <<>>)
            ELSE IF Members(inner).ok THEN JSONValue("object", Members(inner).entries)
            ELSE SyntaxError
     ELSE IF toks[1].t = "[" /\ toks[n].t = "]"
       THEN IF n = 2 THEN JSONValue("array", <<>>)
            ELSE IF Elements(inner, 0).ok THEN JSONValue("array", Elements(inner, 0).entries)
            ELSE SyntaxError
     ELSE SyntaxError

\* mapping[userId] of a parsed mapping: the last member with that key.
Lookup(entries, key) ==
  LET at == {i \in 1..Len(entries) : entries[i].key = key}
  IN IF at = {} THEN Undefined
     ELSE entries[CHOOSE i \in at : \A j \in at : j <= i].value.str

\* A parseWorkerMapping whose errors reach the caller.
parseWorkerMappingStrict(mappingString, default) ==
  LET mapping == JSONparse(mappingString)
  IN IF mapping.type = "SyntaxError" THEN Threw("SyntaxError")
     ELSE IF mapping.type \notin {"object", "array"}
       THEN Threw("Worker mapping must be an object")
     ELSE IF \E i \in 1..Len(mapping.entries) : mapping.entries[i].value.t # "string"
       THEN Threw("Worker mapping keys and values must be strings")
     ELSE [ok |-> TRUE, warned |-> FALSE, mapping |-> mapping.entries, defaultName |-> default]

\* parseWorkerMapping (utils.ts 91-124): typeof of an array is "object" too,
\* and every error, JSON.parse's included, is caught: the function warns and
\* returns the empty mapping.
parseWorkerMapping(mappingString, default) ==
  LET mapping == JSONparse(mappingString)
      failed == \/ mapping.type = "SyntaxError"
                \/ mapping.type \notin {"object", "array"}
                \/ \E i \in 1..Len(mapping.entries) : mapping.entries[i].value.t # "string"
  IN IF failed
       THEN [ok |-> TRUE, warned |-> TRUE, mapping |-> <<>>, defaultName |-> default]
       ELSE [ok |-> TRUE, warned |-> FALSE, mapping |-> mapping.entries, defaultName |-> default]

\* parseBotConfig (utils.ts 224-271) on the environment env, a record of the
\* variables' values (Undefined when unset).
parseBotConfig(env) ==
  LET missing == {i \in 1..Len(requiredEnvVars) :
                    env[requiredEnvVars[i]] = Undefined \/ env[requiredEnvVars[i]] = <<>>}
      workerMapping == parseWorkerMapping(OrElse(env.WORKER_MAPPING, <<"{", "}">>), defaultName)
      polling == parseInt(OrElse(env.POLLING_INTERVAL, <<"1", "0">>))
      capacity == parseInt(OrElse(env.MAX_CACHED_QUOTES, <<"1", "0">>))
      logLevel == OrElse(env.LOG_LEVEL, <<"i", "n", "f", "o">>)
  IN IF missing # {}
       THEN Threw(requiredEnvVars[CHOOSE i \in missing : \A j \in missing : i <= j])
     ELSE IF ~workerMapping.ok THEN workerMapping
     ELSE IF polling.nan \/ polling.val < 1
       THEN Threw("POLLING_INTERVAL must be a positive number")
     ELSE IF capacity.nan \/ capacity.val < 1
       THEN Threw("MAX_CACHED_QUOTES must be a positive number")
     ELSE IF logLevel \notin LogLevels
       THEN Threw("LOG_LEVEL must be one of: error, warn, info, debug")
     ELSE [ok |-> TRUE,
           config |-> [discordToken |-> env.DISCORD_TOKEN,
                       channelId |-> env.CHANNEL_ID,
                       geminiApiKey |-> env.GEMINI_API_KEY,
                       geminiModel |-> OrElse(env.GEMINI_MODEL, <<"g", "e", "m", "i", "n", "i", "-", "2", ".", "5", "-", "f", "l", "a", "s", "h">>),
                       workerMapping |-> [mapping |-> workerMapping.mapping,
                                          defaultName |-> workerMapping.defaultName],
                       localUserId |-> env.LOCAL_USER_ID,
                       pollingInterval |-> polling.val,
                       maxCachedQuotes |-> capacity.val,
                       logLevel |-> logLevel],
           warned |-> workerMapping.warned]

\* this.config.memberCheckInterval * 1000 (utils.ts 654): a property the
\* configuration does not have reads as undefined, and undefined * 1000 is NaN.
memberCheckDelay(config) ==
  IF "memberCheckInterval" \in DOMAIN config
    THEN Number(config.memberCheckInterval * 1000)
    ELSE NaN

\* The period setInterval runs a callback with, in ms: a delay that is NaN,
\* below 1 or above 2147483647 is set to 1.
setInterval(delay) ==
  IF delay.nan \/ delay.val < 1 \/ delay.val > 2147483647 THEN 1 ELSE delay.val

\* -------------------------------------------------------------- ConfigSpec
\* A behaviour of ConfigSpec loads the configuration once, from an
\* environment drawn from the sets below, and keeps the call with its result
\* and, when it returned, the period startMemberChecking gives its timer.

RequiredSettings ==
  {[DISCORD_TOKEN |-> <<"t">>, CHANNEL_ID |-> <<"1">>, GEMINI_API_KEY |-> <<"k">>,
    LOCAL_USER_ID |-> <<"7">>]}
  \cup {[DISCORD_TOKEN |-> t, CHANNEL_ID |-> <<"1">>, GEMINI_API_KEY |-> <<"k">>,
         LOCAL_USER_ID |-> <<"7">>] : t \in {Undefined, <<>>}}
  \cup {[DISCORD_TOKEN |-> <<"t">>, CHANNEL_ID |-> Undefined, GEMINI_API_KEY |-> <<"k">>,
         LOCAL_USER_ID |-> <<"7">>],
        [DISCORD_TOKEN |-> <<"t">>, CHANNEL_ID |-> <<"1">>, GEMINI_API_KEY |-> Undefined,
         LOCAL_USER_ID |-> <<"7">>],
        [DISCORD_TOKEN |-> <<"t">>, CHANNEL_ID |-> <<"1">>, GEMINI_API_KEY |-> <<"k">>,
         LOCAL_USER_ID |-> Undefined]}
PollingIntervals == {Undefined, <<>>, <<"1", "0">>, <<"1">>, <<"0">>, <<"-", "3">>, <<"5", "x">>, <<"a", "b", "c">>}
CacheCapacities == {Undefined, <<"2">>, <<"0">>, <<"x">>}
LogLevelTexts == {Undefined, <<"d", "e", "b", "u", "g">>, <<"v", "e", "r", "b", "o", "s", "e">>, <<"I", "N", "F", "O">>}
MappingTexts ==
  {Undefined, <<"{", "}">>, <<"{", "\"", "7", "\"", ":", " ", "\"", "A", "c", "e", "\"", "}">>, <<"{", "\"", "7", "\"", ":", "5", "}">>, <<"[", "]">>, <<"[", "\"", "a", "\"", "]">>, <<"n", "u", "l", "l">>, <<"5">>, <<"{", "\"", "7", "\"", ":">>, <<"\"", "x", "\"">>}
MemberCheckIntervals == {Undefined, <<"3", "0", "0">>, <<"1", "0">>}

Environments ==
  {[DISCORD_TOKEN |-> r.DISCORD_TOKEN, CHANNEL_ID |-> r.CHANNEL_ID,
    GEMINI_API_KEY |-> r.GEMINI_API_KEY, LOCAL_USER_ID |-> r.LOCAL_USER_ID,
    GEMINI_MODEL |-> Undefined, WORKER_MAPPING |-> m, POLLING_INTERVAL |-> p,
    MAX_CACHED_QUOTES |-> c, LOG_LEVEL |-> l, MEMBER_CHECK_INTERVAL |-> i] :
     r \in RequiredSettings, m \in MappingTexts, p \in PollingIntervals,
     c \in CacheCapacities, l \in LogLevelTexts, i \in MemberCheckIntervals}

ParseBotConfigCall ==
  /\ call = NoCall
  /\ \E env \in Environments :
       LET r == parseBotConfig(env)
       IN call' = [fn |-> "parseBotConfig", env |-> env, result |-> r,
                   memberCheckPeriod |-> IF r.ok THEN setInterval(memberCheckDelay(r.config))
                                         ELSE 0]
  /\ UNCHANGED <<qcalls, quoteCache, nextQuoteId, messageStill>>

ConfigNext == ParseBotConfigCall

ConfigSpec == Init /\ [][ConfigNext]_vars

\* ---------------------------------------------------------------- sanitizer
\* sanitizeDiscordMessage on texts put together from the pieces its patterns
\* are made of.

MaxFragments == 3

Fragments ==
  {<<"@", "e", "v", "e", "r", "y", "o", "n", "e">>,
   <<"@", "h", "e", "r", "e">>,
   <<"<", "@">>,
   <<"<", "@", "!">>,
   <<"<", "@", "&">>,
   <<"<", "#">>,
   <<"<", ":">>,
   <<"a", "_", "b", ":">>,
   <<"n", ":">>,
   <<"1", "2", ">">>,
   <<"\\">>,
   <<"*", BACKTICK, "~", "|">>,
   <<" ">>}

\* The texts of at most n fragments.
RECURSIVE TextsOf(_)
TextsOf(n) ==
  IF n = 0 THEN {<<>>}
  ELSE LET T == TextsOf(n - 1) IN T \cup {t \o f : t \in T, f \in Fragments}

Contents == TextsOf(MaxFragments)

SanitizeCall ==
  /\ call = NoCall
  /\ \E content \in Contents :
       call' = [fn |-> "sanitizeDiscordMessage", content |-> content,
                result |-> sanitizeDiscordMessage(content)]
  /\ UNCHANGED <<qcalls, quoteCache, nextQuoteId, messageStill>>

SanitizeNext == SanitizeCall

SanitizeSpec == Init /\ [][SanitizeNext]_vars

\* ================================================================== claims

Sessions == {<<u, k>> \in Users \X (1..MaxSessions + 1) : k <= Len(hist[u])}

\* Session k of u is the one u's record is in now.
SessionActive(states, h, u, k) ==
  MapHas(states, u) /\ MapGet(states, u).isPlaying /\ Len(h[u]) = k

\* C1: for the signals updateSessionState was given for one record (Idle when
\* created), the completed-session events it emitted are as many as the
\* true->false edges of the signal sequence, an implicit leading false included.
C1_EventsEqualEdges == \A u \in Users : sigs[u].emits = sigs[u].edges

\* Two edges, with repeated signals in between, have been seen on one record.
C1_Witness == \E u \in Users : sigs[u].edges = 2 /\ sigs[u].emits = 2 /\ ~sigs[u].last

\* C2: outside shutdown, a session that a refresh force-ended, or whose record
\* a refresh deleted while Active, has exactly one completed-session event, and
\* no event is emitted for a record that is Idle.
C2_RemovalEmitsExactlyOne ==
  ~isShuttingDown =>
    /\ spurious = 0
    /\ \A s \in Sessions :
         LET e == hist[s[1]][s[2]]
         IN (e.removal > 0 \/ e.dropped) => Events(e) = 1

\* C3: when the process has exited, every session that was Active at the
\* shutdown request has exactly one completed-session event, and none of their
\* notifications is still short of its delivery call.
C3_ShutdownAnnouncesEach ==
  exited =>
    /\ \A s \in stopTask.atStop : Events(hist[s[1]][s[2]]) = 1
    /\ \A o \in Owners :
         notifs[o].stage = "quote" => <<notifs[o].userId, notifs[o].sid>> \notin stopTask.atStop

\* C4: in every session record isPlaying holds exactly when startTime is set.
C4_PlayingIffStartTime ==
  \A i \in 1..Len(sessionStates) :
    sessionStates[i].isPlaying <=> sessionStates[i].startTime # Null

\* An Active record with its startTime beside an Idle record whose session ended.
C4_Witness ==
  \E i, j \in 1..Len(sessionStates) :
    /\ sessionStates[i].isPlaying /\ sessionStates[i].startTime # Null
    /\ ~sessionStates[j].isPlaying
    /\ Len(hist[sessionStates[j].userId]) > 0

\* C5: on every record, a signal equal to the record's isPlaying changes neither
\* the record nor the history and emits nothing, at any later time; and a signal
\* given a second time changes nothing the first application left.
C5_SelfTransitionsNoOp ==
  \A u \in MapKeys(sessionStates) : \A t \in now..MaxTime :
    /\ LET r == updateSessionState(World, u, MapGet(sessionStates, u).isPlaying, t)
       IN ~r.emit /\ r.w.states = sessionStates /\ r.w.hist = hist
    /\ \A sig \in BOOLEAN :
         LET a == updateSessionState(World, u, sig, now)
             b == updateSessionState(a.w, u, sig, t)
         IN ~b.emit /\ b.w.states = a.w.states /\ b.w.hist = a.w.hist

\* An Active record that started earlier than now, beside an Idle record.
C5_Witness ==
  \E i, j \in 1..Len(sessionStates) :
    /\ sessionStates[i].isPlaying /\ sessionStates[i].startTime < now
    /\ ~sessionStates[j].isPlaying

\* C6: outside shutdown, every session that was started and is no longer the
\* one its identity's record is in (it ended, or the record was deleted) has a
\* completed-session event.
C6_NoSessionDropped ==
  ~isShuttingDown =>
    \A s \in Sessions :
      ~SessionActive(sessionStates, hist, s[1], s[2]) => Events(hist[s[1]][s[2]]) >= 1

\* A step in which the channel.send awaited by owner o throws.
SendFails(o) ==
  /\ notifs[o].stage = "send"
  /\ notifs'[o] # notifs[o]
  /\ ~sendFailed /\ sendFailed'

\* C9: when the delivery of a notification that updateSessionState awaits
\* fails, the process does not exit, the announced session is not Active again,
\* and the presence handler that awaited it leaves every record as it was.
C9_FailureKeepsTransition ==
  [][\A o \in HandlerIds \cup PollIds :
       SendFails(o) =>
         /\ ~exited'
         /\ ~SessionActive(sessionStates', hist', notifs[o].userId, notifs[o].sid)
         /\ (o \in HandlerIds => sessionStates' = sessionStates)]_vars

\* A delivery has failed and the identity it was for is Idle, its session over.
C9_Witness ==
  /\ sendFailed
  /\ \E u \in MapKeys(sessionStates) :
       /\ ~MapGet(sessionStates, u).isPlaying
       /\ MapGet(sessionStates, u).startTime = Null
       /\ SessionsStarted(hist) = 1 /\ Len(hist[u]) = 1
       /\ hist[u][1].signal = 1 /\ Events(hist[u][1]) = 1
       /\ \A o \in Owners : notifs[o].stage = "none"

\* The record of u after a polling pass that reads `presence` for u (and no
\* presence for the others) has run from its start to its first suspension.
AfterPoll(u, presence) ==
  LET o == CHOOSE x \in PollIds : TRUE
      w0 == [World EXCEPT !.polls[o] = [active |-> TRUE, next |-> 1]]
      pres == [x \in Users |-> IF x = u THEN presence ELSE "none"]
  IN MapGet(PollRun(w0, o, pres, now, targetChannel).w.states, u)

\* C10: a polling pass ends the session of an Active record whose presence is
\* missing or has no activity list, and so does a presence event whose payload
\* has no activity list.
C10_MissingSignalIsFalse ==
  \A u \in MapKeys(monitoredUsers) :
    (MapHas(sessionStates, u) /\ MapGet(sessionStates, u).isPlaying) =>
      /\ ~AfterPoll(u, "none").isPlaying
      /\ ~AfterPoll(u, "noactivities").isPlaying
      /\ ~MapGet(updateSessionState(
                   World, u, isPlayingSatisfactoryFromPresence("noactivities"), now).w.states,
                 u).isPlaying

\* The records a polling pass leaves when it starts now, reads pres and runs
\* until it suspends or ends; finished tells which.
PollPass(pres) ==
  LET o == CHOOSE x \in PollIds : TRUE
      w0 == [World EXCEPT !.polls[o] = [active |-> TRUE, next |-> 1]]
      r == PollRun(w0, o, pres, now, targetChannel)
  IN [states |-> r.w.states, finished |-> ~r.capped /\ ~r.w.polls[o].active]

\* C11: when a polling pass has ended, every tracked identity whose presence
\* was readable has had its signal applied, also when deriving the signal of
\* another identity threw in that pass.
C11_PollIsolatesFailures ==
  \A pres \in [Users -> PresenceKinds] :
    LET r == PollPass(pres)
    IN r.finished =>
         \A v \in MapKeys(monitoredUsers) :
           (pres[v] # "none" /\ ~presenceThrows(pres[v])) =>
             MapGet(r.states, v).isPlaying = isPlayingSatisfactoryFromPresence(pres[v])

\* C12: a step in which the roster query of a refresh fails changes neither the
\* tracked set nor any session record, ends or drops no session, starts no
\* notification and does not end the process; the refresh is over.
C12_FetchFailureKeepsTracked ==
  [][\A o \in RefreshIds :
       (~exited /\ refreshes[o].stage = "fetch" /\ RefreshFetchFails(o)) =>
         /\ monitoredUsers' = monitoredUsers
         /\ sessionStates' = sessionStates
         /\ hist' = hist
         /\ notifs' = notifs
         /\ exited' = exited
         /\ refreshes'[o].stage = "idle"]_vars

\* A refresh of the member-check timer awaits its roster query, which can
\* fail, while an identity is tracked and Active.
C12_Witness ==
  \E o \in RefreshIds :
    /\ refreshes[o].stage = "fetch" /\ refreshes[o].owner = "timer"
    /\ ~exited
    /\ \E u \in MapKeys(sessionStates) : MapGet(sessionStates, u).isPlaying
    /\ ENABLED RefreshFetchFails(o)

\* C13: a step of a refresh leaves the record of every identity that has a
\* record before and after it as it was, and every record it adds is Idle with
\* no startTime.
C13_RefreshKeepsRecords ==
  [][refreshes' # refreshes =>
       /\ \A u \in MapKeys(sessionStates) \cap MapKeys(sessionStates') :
            MapGet(sessionStates', u) = MapGet(sessionStates, u)
       /\ \A u \in MapKeys(sessionStates') \ MapKeys(sessionStates) :
            MapGet(sessionStates', u) = NewSessionState(u)]_vars

\* A refresh is suspended in the removal of one identity while another
\* identity, tracked before and after it, is Active.
C13_Witness ==
  \E o \in RefreshIds :
    /\ refreshes[o].stage = "remove"
    /\ \E u \in refreshes[o].newIds :
         MapHas(sessionStates, u) /\ MapGet(sessionStates, u).isPlaying

\* C14: the identities with a session record are the tracked identities, and
\* neither map holds an identity twice.
C14_OneRecordPerTracked ==
  /\ MapKeys(sessionStates) = MapKeys(monitoredUsers)
  /\ Cardinality(MapKeys(sessionStates)) = Len(sessionStates)
  /\ Cardinality(MapKeys(monitoredUsers)) = Len(monitoredUsers)

\* One identity is tracked and another, that had a session, was removed.
C14_Witness ==
  /\ Len(monitoredUsers) = 1
  /\ \E u \in Users : ~MapHas(monitoredUsers, u) /\ Len(hist[u]) > 0

\* C22: when a refresh whose roster query succeeded comes to its end, the
\* tracked set is exactly the set of roster members that are no bot and may
\* view the target channel: every such member is tracked, whether it was
\* before or not, every member that lost visibility is dropped, and no bot is
\* ever tracked.  Nothing but the one refresh writes to the tracked set, so
\* this holds of a refresh that ends in the run that resumed from the query and
\* of one that was suspended in forced ends on the way.
C22_TrackedIsVisible ==
  /\ [](MapKeys(monitoredUsers) \cap Bots = {})
  /\ [][\A o \in RefreshIds :
          /\ \A visible \in SUBSET Roster :
               (/\ refreshes[o].stage = "fetch"
                /\ refreshes'[o].stage = "idle"
                /\ RefreshFetchedWith(o, visible)) =>
                 MapKeys(monitoredUsers') = visible \ Bots
          /\ (/\ refreshes[o].stage \notin {"idle", "fetch"}
              /\ refreshes'[o].stage = "idle"
              /\ RefreshResume(o)) =>
               MapKeys(monitoredUsers') = refreshes[o].newIds]_vars

\* A refresh has added u2 and dropped u1 with a bot on the roster: the step
\* that does so is enabled where u1 alone is tracked.
C22_Witness ==
  /\ MapKeys(monitoredUsers) = {"u1"}
  /\ \E o \in RefreshIds :
       /\ refreshes[o].stage = "fetch"
       /\ ENABLED (RefreshFetchedWith(o, {"u2", "bot1"}) /\ refreshes'[o].stage = "idle"
                     /\ MapKeys(monitoredUsers') = {"u2"})

\* The notifications the two signal channels are suspended in.
SignalNotifs == {o \in HandlerIds \cup PollIds : notifs[o].stage # "none" /\ notifs[o].sid > 0}

\* C25: the presence handler and the polling pass emit at most one
\* completed-session event for a session, however their runs interleave; and
\* while one of them is suspended in the notification of a session, that
\* session has its one event from them, and the same false reading given by the
\* other channel (a presence event, or a polling pass begun now that reads
\* false for the identity) emits nothing for it.
C25_OneEventPerFalseReading ==
  /\ \A s \in Sessions : hist[s[1]][s[2]].signal <= 1
  /\ \A o \in SignalNotifs :
       LET u == notifs[o].userId
           sid == notifs[o].sid
           again == updateSessionState(World, u, FALSE, now)
           pass == PollRun([World EXCEPT !.polls = [p \in PollIds |-> [active |-> TRUE, next |-> 1]]],
                           FirstFree(PollIds), [v \in Users |-> IF v = u THEN "other" ELSE "none"], now, targetChannel)
       IN /\ hist[u][sid].signal = 1
          /\ again.w.hist[u][sid].signal = 1
          /\ pass.w.hist[u][sid].signal = 1
          /\ Len(hist[u]) = sid /\ ~SessionActive(sessionStates, hist, u, sid) => ~again.emit

\* The presence handler is suspended in the notification of u1's first
\* session, u1 is tracked and Idle, and a polling pass is due.
C25_Witness ==
  \E o \in HandlerIds :
    /\ notifs[o].stage # "none" /\ notifs[o].userId = "u1" /\ notifs[o].sid = 1
    /\ MapHas(sessionStates, "u1") /\ ~MapGet(sessionStates, "u1").isPlaying
    /\ hist["u1"][1].signal = 1
    /\ pollingInterval = "set" /\ ~isShuttingDown
    /\ \A p \in PollIds : ~polls[p].active

\* C26: in no reachable state is a completed-session notification in flight
\* for an identity whose record is still Active in the session being announced
\* (isPlaying set and startTime that of the announced session): every path that
\* ends a session resets the record in the run that read it.
C26_NoNotificationWhileActive ==
  \A o \in Owners :
    (notifs[o].stage # "none" /\ notifs[o].sid > 0) =>
      ~SessionActive(sessionStates, hist, notifs[o].userId, notifs[o].sid)

\* The sessions whose drain notification has begun in this step.
DrainBegins == {s \in stopTask'.atStop :
                  s \in Sessions /\ hist'[s[1]][s[2]].shutdown > hist[s[1]][s[2]].shutdown}

\* C27: the step that begins stop() leaves neither timer set; once stop() has
\* begun no polling pass and no membership refresh starts; a drain notification
\* is begun only by the step that begins stop() or by the step in which the
\* drain notification before it settles, so that no two are in flight
\* together; and stop() comes to client.destroy() only with its queue empty and
\* no drain notification in flight.
C27_ShutdownOrder ==
  /\ [](stopTask.stage = "done" =>
          /\ isShuttingDown
          /\ stopTask.queue = <<>>
          /\ notifs[StopId].stage = "none")
  /\ [][/\ (~isShuttingDown /\ isShuttingDown') =>
            (pollingInterval' # "set" /\ memberCheckInterval' # "set")
        /\ isShuttingDown =>
            /\ \A p \in PollIds : (polls'[p].active => polls[p].active)
            /\ \A o \in RefreshIds :
                 (refreshes[o].stage = "idle" => refreshes'[o].stage = "idle")
        /\ (DrainBegins # {} /\ notifs'[StopId].stage # "none") =>
            /\ ~isShuttingDown \/ notifs[StopId].stage = "send"
            /\ <<notifs'[StopId].userId, notifs'[StopId].sid>> \in DrainBegins
            /\ stopTask'.stage = "drain"]_vars

\* The drain has finished the notification of one of two sessions that were
\* Active at the shutdown request and is suspended in that of the other, with
\* both timers started after stop() began.
C27_Witness ==
  /\ isShuttingDown /\ stopTask.stage = "drain"
  /\ stopTask.atStop = {<<"u1", 1>>, <<"u2", 1>>}
  /\ hist["u1"][1].shutdown = 1 /\ hist["u2"][1].shutdown = 1
  /\ notifs[StopId].stage = "quote" /\ notifs[StopId].userId = "u2"
  /\ pollingInterval = "set" /\ memberCheckInterval = "set"

\* C15: once the shutdown drain has finished, no record is Active.
C15_DrainLeavesAllIdle ==
  stopTask.stage = "done" =>
    \A i \in 1..Len(sessionStates) :
      ~sessionStates[i].isPlaying /\ sessionStates[i].startTime = Null

\* Owner o's sendSessionEndMessage is called in this step.
NotifStarts(o) ==
  /\ notifs'[o] # notifs[o]
  /\ notifs'[o].stage # "none"
  /\ ~(notifs[o].stage = "quote" /\ notifs'[o].stage = "send")

\* The start time of the session the notification owner o starts in this step
\* is about: the startTime of the identity's record before the step or, in the
\* shutdown drain, of the record object the drain still holds after a removal.
StartOfEnded(o) ==
  LET u == notifs'[o].userId
  IN IF o = StopId /\ stopTask.queue # <<>> /\ ~Head(stopTask.queue).live
          /\ Head(stopTask.queue).userId = u
       THEN Head(stopTask.queue).startTime
     ELSE IF MapHas(sessionStates, u) THEN MapGet(sessionStates, u).startTime
     ELSE Null

\* C19: the duration given to every notification is the time of the step that
\* ends the session minus the session's start time, and a record's startTime
\* is only ever set, to the current time, when the record goes from Idle to
\* Active; it is never moved by a later signal.
C19_DurationIsEndMinusStart ==
  [][/\ \A o \in Owners :
          NotifStarts(o) =>
            /\ StartOfEnded(o) # Null
            /\ notifs'[o].duration = now - StartOfEnded(o)
     /\ \A u \in MapKeys(sessionStates) \cap MapKeys(sessionStates') :
          LET a == MapGet(sessionStates, u)
              b == MapGet(sessionStates', u)
          IN b.startTime # a.startTime =>
               \/ b.startTime = Null
               \/ (~a.isPlaying /\ a.startTime = Null /\ b.isPlaying /\ b.startTime = now)]_vars

\* A notification with a duration above zero is in flight.
C19_Witness == \E o \in Owners : notifs[o].stage # "none" /\ notifs[o].duration > 0

\* The completed getQuote calls.
GetQuoteReturns == {i \in 1..Len(qcalls) : qcalls[i].kind = "get" /\ qcalls[i].stage = "done"}

\* C7: no quote obtained from the backend is returned by two getQuote calls.
C7_QuoteReturnedAtMostOnce ==
  \A i, j \in GetQuoteReturns :
    (i # j /\ ~qcalls[i].quote.isFallback) => qcalls[i].quote # qcalls[j].quote

\* C8: no completed getQuote call has thrown, and one that found the cache
\* empty and saw every live attempt fail returned a quote marked as fallback
\* that is an entry of the static fallback list.
C8_GetQuoteNeverThrows ==
  \A i \in GetQuoteReturns :
    /\ ~qcalls[i].threw
    /\ (qcalls[i].cacheEmpty /\ qcalls[i].liveFailed) =>
         (qcalls[i].quote.isFallback /\ qcalls[i].quote \in FallbackQuotes)

\* A getQuote call found the cache empty, failed maxAttempts times and returned.
C8_Witness ==
  \E i \in GetQuoteReturns :
    /\ qcalls[i].cacheEmpty /\ qcalls[i].liveFailed /\ qcalls[i].attempt = maxAttempts
    /\ qcalls[i].quote.isFallback

Contains(str, sub) ==
  \E i \in 1..(Len(str) - Len(sub) + 1) : SubSeq(str, i, i + Len(sub) - 1) = sub

CountOf(str, ch) == Cardinality({i \in 1..Len(str) : str[i] = ch})

\* The first position of str at which sub begins; 0 when there is none.
IndexOf(str, sub) ==
  IF Contains(str, sub)
    THEN CHOOSE i \in 1..(Len(str) - Len(sub) + 1) :
           /\ SubSeq(str, i, i + Len(sub) - 1) = sub
           /\ \A j \in 1..(i - 1) : SubSeq(str, j, j + Len(sub) - 1) # sub
    ELSE 0

\* The first line of the text sent for a session of 11,565,000 ms of an
\* identity with role label "Pioneer", from the name on.
PioneerHeadline ==
  <<" ", "\"">> \o defaultName \o <<"\"">> \o HasEndedTheir
    \o <<"0", "3", ":", "1", "2", ":", "4", "5">> \o Shift \o <<"\n">>

\* C16: for an identity with role label "Pioneer" whose session lasted
\* 11,565,000 ms, the text handed to the delivery call contains
\* `>>> <name> "Pioneer" has ended their 03:12:45 shift!` followed by a line
\* that is the quote wrapped in unescaped italic markers: the line begins with
\* "*" and ends with a "*" that no backslash precedes.
C16_PioneerMessage ==
  (call.fn = "sendSessionEndMessage" /\ call.entry = defaultName /\ call.ms = 11565000) =>
    LET at == IndexOf(call.result, PioneerHeadline)
        quoteLine == Drop(call.result, at + Len(PioneerHeadline) - 1)
    IN /\ StartsWith(call.result, Gt3)
       /\ at > Len(Gt3)
       /\ Len(quoteLine) >= 2
       /\ CountOf(quoteLine, "\n") = 0
       /\ Head(quoteLine) = "*"
       /\ quoteLine[Len(quoteLine)] = "*"
       /\ quoteLine[Len(quoteLine) - 1] # "\\"

\* The role label the with-label template shows for a mapping entry.
ShownLabel(entry) == IF entry = <<>> THEN defaultName ELSE entry

TwoDigits(n) == <<Digits[(n \div 10) + 1], Digits[(n % 10) + 1]>>

\* C18: for every non-negative integer ms, formatDuration(ms) is
\* hours:minutes:seconds of floor(ms/1000): the seconds and the minutes fields
\* are the two digits of a number in 00..59, the hours field is
\* floor(ms/3,600,000) padded to two digits and never clamped, so that
\* 11,565,000 gives "03:12:45", 0 gives "00:00:00" and from 360,000,000 on the
\* hours field has three or more digits.
C18_FormatDuration ==
  call.fn = "formatDuration" =>
    LET r == call.result
        L == Len(r)
        totalSeconds == call.ms \div 1000
        hourField == SubSeq(r, 1, L - 6)
    IN /\ L >= 8
       /\ r[L - 5] = ":" /\ r[L - 2] = ":"
       /\ SubSeq(r, L - 1, L) = TwoDigits(totalSeconds % 60)
       /\ SubSeq(r, L - 4, L - 3) = TwoDigits((totalSeconds \div 60) % 60)
       /\ \A i \in 1..Len(hourField) : hourField[i] \in DigitChars
       /\ DecimalValue(hourField) = call.ms \div 3600000
       /\ Len(hourField) > 2 => hourField[1] # "0"
       /\ call.ms = 11565000 => r = <<"0", "3", ":", "1", "2", ":", "4", "5">>
       /\ call.ms = 0 => r = <<"0", "0", ":", "0", "0", ":", "0", "0">>
       /\ call.ms >= 360000000 => Len(hourField) >= 3

\* A duration of 500 hours, 59 minutes, 59.999 seconds has been formatted.
C18_Witness ==
  /\ call.fn = "formatDuration"
  /\ call.ms = 500 * 3600000 + 59 * 60000 + 59999
  /\ call.result = <<"5", "0", "0", ":", "5", "9", ":", "5", "9">>


\* C23: the period of the membership-refresh timer that configuration
\* loading produces is 300 seconds when MEMBER_CHECK_INTERVAL is unset and is
\* never below 30 seconds, whatever the environment supplies.
C23_MemberCheckInterval ==
  (call.fn = "parseBotConfig" /\ call.result.ok) =>
    /\ call.memberCheckPeriod >= 30 * 1000
    /\ call.env.MEMBER_CHECK_INTERVAL = Undefined => call.memberCheckPeriod = 300 * 1000

\* A setting that is unset or empty.
Unset(value) == value = Undefined \/ value = <<>>

\* What the texts of PollingIntervals and CacheCapacities are expected to be
\* read as: the default 10, a number, or 0 for a text that must be refused.
\* lenient says whether a number followed by other characters is read as that
\* number.
ExpectedNumber(text, lenient) ==
  CASE Unset(text) -> 10
    [] text = <<"1", "0">> -> 10
    [] text = <<"1">> -> 1
    [] text = <<"2">> -> 2
    [] text = <<"5", "x">> -> IF lenient THEN 5 ELSE 0
    [] OTHER -> 0

\* The texts of LogLevelTexts that name a log level, and those of MappingTexts
\* that are a JSON object whose values are all strings.
GoodLogLevel(text) == Unset(text) \/ text = <<"d", "e", "b", "u", "g">>
ObjectOfStrings(text) == Unset(text) \/ text = <<"{", "}">> \/ text = <<"{", "\"", "7", "\"", ":", " ", "\"", "A", "c", "e", "\"", "}">>

ServedFromCache == {i \in GetQuoteReturns : ~qcalls[i].cacheEmpty}

\* C21: cached quotes are served first-in-first-out.  A getQuote that finds
\* the cache non-empty returns the quote at its front, removes exactly that
\* quote and makes no attempt on the backend; the backend numbers its quotes in
\* the order it produces them and a quote enters the cache in the step that
\* fetched it, so the cache holds its quotes in increasing order, every quote
\* served from the cache is older than every quote still in it, and the
\* quotes served from the cache come out in increasing order.
C21_CacheIsFifo ==
  /\ [](/\ \A i, j \in 1..Len(quoteCache) : i < j => quoteCache[i].id < quoteCache[j].id
        /\ \A i \in ServedFromCache :
             /\ \A k \in 1..Len(quoteCache) : qcalls[i].quote.id < quoteCache[k].id
             /\ \A j \in ServedFromCache : i < j => qcalls[i].quote.id < qcalls[j].quote.id)
  /\ [][(GetQuoteCall /\ Len(quoteCache) > 0) =>
          /\ quoteCache' = Tail(quoteCache)
          /\ qcalls'[Len(qcalls')].quote = Head(quoteCache)
          /\ qcalls'[Len(qcalls')].stage = "done"
          /\ qcalls'[Len(qcalls')].attempt = 0
          /\ nextQuoteId' = nextQuoteId]_vars

\* Two quotes were cached and a getQuote has taken the older one, leaving the
\* newer one in the cache.
C21_Witness ==
  /\ Len(quoteCache) = 1
  /\ quoteCache[1].id = 2
  /\ \E i \in ServedFromCache : qcalls[i].quote.id = 1 /\ qcalls[i].attempt = 0

\* C20: the quote cache never holds more than maxCachedQuotes quotes.
C20_CacheBounded == Len(quoteCache) <= maxCachedQuotes

\* The cache is full after preloadQuotes generations fetched more quotes than
\* it can hold, with no getQuote having taken one out.
C20_Witness ==
  /\ Len(quoteCache) = maxCachedQuotes
  /\ nextQuoteId - 1 > maxCachedQuotes
  /\ \A i \in 1..Len(qcalls) : qcalls[i].kind = "preload"

\* A notification about identity u starts in this step.
NotifStartsFor(u) == \E o \in Owners : NotifStarts(o) /\ notifs'[o].userId = u

\* C28: every notification that starts is about a session of a record that is
\* Active when the step begins: one a false signal ends in that step (presence
\* handler, polling pass), one of an identity the refresh is removing, one the
\* drain finds Active, or one whose record object the drain still holds Active
\* after a refresh deleted it.  No notification about an identity starts in a
\* step that takes its record from Idle to Active, leaves it Idle, adds it, or
\* removes it while Idle, and the signal channels start none for a record they
\* leave Active.
C28_OnlyEndingsNotify ==
  [][/\ \A o \in Owners :
          NotifStarts(o) =>
            LET u == notifs'[o].userId
                sid == notifs'[o].sid
                active == SessionActive(sessionStates, hist, u, sid)
            IN /\ sid > 0 /\ spurious' = 0
               /\ StartOfEnded(o) # Null
               /\ o \in HandlerIds \cup PollIds =>
                    (active /\ ~SessionActive(sessionStates', hist', u, sid))
               /\ o \in RefreshIds => (active /\ u \notin refreshes'[o].newIds)
               /\ o = StopId =>
                    (active \/ (<<u, sid>> \in stopTask.atStop /\ ~MapHas(sessionStates, u)))
     /\ \A u \in Users :
          LET before == MapHas(sessionStates, u)
              after == MapHas(sessionStates', u)
              wasIdle == before /\ ~MapGet(sessionStates, u).isPlaying
              isIdle == after /\ ~MapGet(sessionStates', u).isPlaying
          IN /\ (wasIdle /\ after /\ ~isIdle) => ~NotifStartsFor(u)
             /\ (wasIdle /\ isIdle) => ~NotifStartsFor(u)
             /\ (~before /\ after) => ~NotifStartsFor(u)
             /\ (wasIdle /\ ~after) => ~NotifStartsFor(u)
             /\ (before /\ ~wasIdle /\ after /\ ~isIdle) =>
                  \A o \in HandlerIds \cup PollIds : ~(NotifStarts(o) /\ notifs'[o].userId = u)]_vars

\* The presence handler is suspended in the notification of u1's first
\* session, which a false signal ended, while u2 is Active in a session that
\* started without any notification.
C28_Witness ==
  /\ \E o \in HandlerIds :
       notifs[o].stage # "none" /\ notifs[o].userId = "u1" /\ notifs[o].sid = 1
  /\ hist["u1"][1].signal = 1
  /\ SessionActive(sessionStates, hist, "u2", 1)
  /\ Events(hist["u2"][1]) = 0
  /\ \A o \in Owners \ HandlerIds : notifs[o].stage = "none"
  /\ spurious = 0

\* The channel.send calls that are awaited now.
Deliveries == {o \in Owners : notifs[o].stage = "send"}

\* C29: no session is announced twice: a session has at most one
\* completed-session event, each event is followed by at most one call of
\* channel.send, and so no two deliveries for one session are ever awaited
\* together.
C29_NoSessionAnnouncedTwice ==
  /\ \A s \in Sessions : Events(hist[s[1]][s[2]]) <= 1
  /\ \A o1, o2 \in Deliveries :
       (notifs[o1].userId = notifs[o2].userId /\ notifs[o1].sid = notifs[o2].sid) => o1 = o2

\* The sessions that get a completed-session event in this step.
EventsEmitted == {s \in Users \X (1..MaxSessions + 1) :
                    /\ s[2] <= Len(hist'[s[1]])
                    /\ Events(hist'[s[1]][s[2]]) >
                         (IF s[2] <= Len(hist[s[1]]) THEN Events(hist[s[1]][s[2]]) ELSE 0)}

\* C30: every completed-session event starts one notification, which waits
\* for a generated quote when the cache is empty; as long as the process runs
\* the quote can return, and when the generation attempt has failed the
\* notification goes on to channel.send with the same identity and duration
\* and a quote from the static fallback list.  While no generation attempt has
\* succeeded the cache is empty and no delivery is awaited with any other
\* quote.
C30_FallbackWhenBackendDown ==
  /\ [](/\ nextQuoteId = 1 =>
             /\ quoteCache = <<>>
             /\ \A o \in Owners :
                  notifs[o].stage = "send" => notifs[o].quote \in FallbackQuotes
        /\ \A o \in Owners :
             (notifs[o].stage = "quote" /\ ~exited) => ENABLED QuoteReturns(o))
  /\ [][/\ \A s \in EventsEmitted :
              /\ EventsEmitted = {s}
              /\ Events(hist'[s[1]][s[2]]) = Events(hist[s[1]][s[2]]) + 1
              /\ \E o \in Owners :
                   /\ NotifStarts(o)
                   /\ notifs'[o].userId = s[1] /\ notifs'[o].sid = s[2]
                   /\ notifs'[o].stage = IF quoteCache = <<>> THEN "quote" ELSE "send"
                   /\ \A o2 \in Owners \ {o} : ~NotifStarts(o2)
         /\ \A o \in Owners :
              (notifs[o].stage = "quote" /\ notifs'[o] # notifs[o]) =>
                /\ notifs'[o] = [notifs[o] EXCEPT !.stage = "send", !.quote = notifs'[o].quote,
                                                  !.attempt = 0]
                /\ nextQuoteId' = nextQuoteId => notifs'[o].quote \in FallbackQuotes]_vars

\* A session's one event has brought its notification to channel.send with a
\* fallback quote.
C30_Witness ==
  \E o \in Owners :
    /\ notifs[o].stage = "send"
    /\ notifs[o].quote.isFallback
    /\ notifs[o].sid > 0
    /\ Events(hist[notifs[o].userId][notifs[o].sid]) = 1
    /\ nextQuoteId = 1

\* C31: one live generation calls the backend at most three times; the first
\* attempt that succeeds ends it with that attempt's quote; after the first
\* failure it waits 1000 ms, after the second 2000 ms (the delay doubles and is
\* capped at 5000 ms); after the third failure it waits nothing and fails with
\* that attempt's error.
C31_RetryPolicy ==
  /\ [](/\ <<RetryDelay(1), RetryDelay(2), RetryDelay(3), RetryDelay(4), RetryDelay(5)>>
             = <<1000, 2000, 4000, 5000, 5000>>
        /\ \A i \in 1..Len(qcalls) :
             /\ qcalls[i].attempt <= 3
             /\ qcalls[i].stage = "backoff" =>
                  /\ qcalls[i].attempt \in {1, 2}
                  /\ qcalls[i].delay = IF qcalls[i].attempt = 1 THEN 1000 ELSE 2000
             /\ qcalls[i].stage # "backoff" => qcalls[i].delay = 0
             /\ qcalls[i].thrown # 0 =>
                  (qcalls[i].stage = "done" /\ qcalls[i].thrown = 3 /\ qcalls[i].liveFailed))
  /\ [][\A i \in 1..Len(qcalls) :
          /\ (qcalls[i].stage = "fetch" /\ AttemptSucceeds(i)) =>
               /\ qcalls'[i].stage = "done"
               /\ qcalls'[i].attempt = qcalls[i].attempt
               /\ qcalls'[i].quote = [id |-> nextQuoteId, isFallback |-> FALSE]
               /\ ~qcalls'[i].liveFailed /\ qcalls'[i].thrown = 0
          /\ (qcalls[i].stage = "fetch" /\ AttemptFails(i)) =>
               IF qcalls[i].attempt = 3
                 THEN /\ qcalls'[i].stage = "done"
                      /\ qcalls'[i].liveFailed /\ qcalls'[i].thrown = 3
                      /\ qcalls'[i].attempt = 3
                 ELSE /\ qcalls'[i].stage = "backoff"
                      /\ qcalls'[i].attempt = qcalls[i].attempt
                      /\ qcalls'[i].thrown = 0
          /\ (qcalls[i].stage = "backoff" /\ qcalls[i] # qcalls'[i]) =>
               /\ qcalls'[i].stage = "fetch"
               /\ qcalls'[i].attempt = qcalls[i].attempt + 1
          /\ qcalls[i].stage = "done" => qcalls'[i] = qcalls[i]]_vars

\* One generation has failed three times and thrown the third error, and
\* another has succeeded at its second attempt.
C31_Witness ==
  \E i, j \in 1..Len(qcalls) :
    /\ qcalls[i].stage = "done" /\ qcalls[i].liveFailed
    /\ qcalls[i].attempt = 3 /\ qcalls[i].thrown = 3
    /\ qcalls[j].stage = "done" /\ ~qcalls[j].liveFailed
    /\ qcalls[j].attempt = 2 /\ qcalls[j].lastError = 1

\* The generations that have settled with a quote of the backend.
Generated == {i \in 1..Len(qcalls) :
                qcalls[i].kind # "get" /\ qcalls[i].stage = "done" /\ ~qcalls[i].liveFailed}

\* C32: no generation started by preloadQuotes ever throws, so the batch never
\* rejects; a generation that fails changes neither the cache nor the other
\* generations of the batch, which go on; and as long as no getQuote has run,
\* the cache holds min(capacity, number of generations that succeeded) quotes:
\* from a cache of size s, k further successes leave min(capacity, s + k).
C32_PreloadFillsCache ==
  /\ [](/\ \A i \in 1..Len(qcalls) : qcalls[i].kind = "preload" => ~qcalls[i].threw
        /\ (\A i \in 1..Len(qcalls) : qcalls[i].kind # "get") =>
             Len(quoteCache) = IF Cardinality(Generated) < maxCachedQuotes
                                 THEN Cardinality(Generated) ELSE maxCachedQuotes)
  /\ [][\A i \in 1..Len(qcalls) :
          (qcalls[i].kind = "preload" /\ qcalls[i].stage = "fetch" /\ AttemptFails(i)) =>
            /\ quoteCache' = quoteCache
            /\ \A j \in 1..Len(qcalls) : j # i => qcalls'[j] = qcalls[j]
            /\ qcalls'[i].stage = "done" => (~qcalls'[i].threw /\ qcalls'[i].quote.isFallback)]_vars

\* A batch of two on a cache that held one quote: one of its generations
\* failed for good, the other succeeded, and the cache holds two quotes.
C32_Witness ==
  /\ Len(qcalls) = 3
  /\ qcalls[1].kind = "generate" /\ qcalls[2].kind = "preload" /\ qcalls[3].kind = "preload"
  /\ ~qcalls[2].cacheEmpty
  /\ \A i \in 1..3 : qcalls[i].stage = "done"
  /\ qcalls[2].liveFailed /\ ~qcalls[3].liveFailed /\ ~qcalls[1].liveFailed
  /\ Len(quoteCache) = 2

\* C33: a quote that getQuote or generateQuote has returned is tagged
\* isFallback exactly when the call's live generation failed for good, and it
\* is then one of the static list; a quote served from the cache or returned
\* by a successful attempt is tagged false and is one the backend produced;
\* the cache never holds a quote tagged isFallback.
C33_ProvenanceExact ==
  /\ \A k \in 1..Len(quoteCache) :
       ~quoteCache[k].isFallback /\ quoteCache[k].id \in 1..(nextQuoteId - 1)
  /\ \A i \in 1..Len(qcalls) :
       qcalls[i].stage = "done" =>
         /\ qcalls[i].quote.isFallback <=> qcalls[i].liveFailed
         /\ qcalls[i].liveFailed =>
              (qcalls[i].quote.id \in 1..NumFallbacks /\ qcalls[i].attempt = maxAttempts)
         /\ ~qcalls[i].liveFailed => qcalls[i].quote.id \in 1..(nextQuoteId - 1)
         /\ (qcalls[i].kind = "get" /\ ~qcalls[i].cacheEmpty) =>
              (~qcalls[i].liveFailed /\ qcalls[i].attempt = 0)

\* getQuote has returned a fallback quote, a live quote and a cached quote.
C33_Witness ==
  \E i, j, k \in 1..Len(qcalls) :
    /\ qcalls[i].kind = "get" /\ qcalls[i].stage = "done" /\ qcalls[i].quote.isFallback
    /\ qcalls[j].kind = "get" /\ qcalls[j].stage = "done" /\ qcalls[j].cacheEmpty
    /\ ~qcalls[j].quote.isFallback
    /\ qcalls[k].kind = "get" /\ qcalls[k].stage = "done" /\ ~qcalls[k].cacheEmpty
    /\ ~qcalls[k].quote.isFallback

\* C34: updateSessionState for one identity leaves every other identity's
\* record object, session history and signal counts as they were, and two
\* updates of different identities, each at its own time, give the same
\* records, the same histories and the same event counts in either order.
C34_IdentitiesIndependent ==
  \A i, j \in 1..Len(sessionStates) :
    i # j =>
      LET a == sessionStates[i].userId
          b == sessionStates[j].userId
      IN \A sa \in BOOLEAN : \A ta \in now..MaxTime :
           LET ra == updateSessionState(World, a, sa, ta)
           IN /\ ra.w.states[j] = sessionStates[j]
              /\ ra.w.hist[b] = hist[b] /\ ra.w.sigs[b] = sigs[b]
              /\ ra.w.mon = monitoredUsers
              /\ i < j =>
                   \A sb \in BOOLEAN : \A tb \in now..MaxTime :
                     LET rb == updateSessionState(World, b, sb, tb)
                         rab == updateSessionState(ra.w, b, sb, tb)
                         rba == updateSessionState(rb.w, a, sa, ta)
                     IN /\ rab.w.states = rba.w.states
                        /\ rab.w.hist = rba.w.hist
                        /\ rab.w.sigs = rba.w.sigs
                        /\ rab.w.spurious = rba.w.spurious
                        /\ rab.emit = rb.emit /\ rab.duration = rb.duration
                        /\ rba.emit = ra.emit /\ rba.duration = ra.duration

\* Two identities are Active at once, in sessions that started at different
\* times.
C34_Witness ==
  /\ SessionActive(sessionStates, hist, "u1", 1)
  /\ SessionActive(sessionStates, hist, "u2", 1)
  /\ MapGet(sessionStates, "u1").startTime # MapGet(sessionStates, "u2").startTime
  /\ now = MaxTime

\* Every markup control character of str is the second of a pair that begins
\* with a backslash.
RECURSIVE WellEscaped(_)
WellEscaped(str) ==
  IF str = <<>> THEN TRUE
  ELSE IF Head(str) \in MarkdownChars
    THEN /\ Head(str) = "\\"
         /\ Len(str) >= 2 /\ str[2] \in MarkdownChars
         /\ WellEscaped(Drop(str, 2))
  ELSE WellEscaped(Tail(str))

MarkupCount(str) == Cardinality({i \in 1..Len(str) : str[i] \in MarkdownChars})

DrainNotified(u) == {k \in 1..Len(hist[u]) : hist[u][k].shutdown > 0}

\* C36: a shutdown request leads to the end of stop() (and of the process);
\* the drain starts at most one notification per record, and only for
\* records that were Active at the request; and no notification's quote
\* generation goes beyond its third attempt.
C36_ShutdownCompletes ==
  /\ [](\A o \in Owners : notifs[o].attempt <= 3)
  /\ [](\A u \in Users :
          /\ \A k \in DrainNotified(u) : hist[u][k].shutdown = 1
          /\ Cardinality(DrainNotified(u)) <= 1
          /\ DrainNotified(u) # {} => \E s \in stopTask.atStop : s[1] = u)
  /\ (isShuttingDown ~> (stopTask.stage = "done" \/ exited))

\* stop() has finished a drain of two sessions, one notification each.
C36_Witness ==
  /\ stopTask.stage = "done" /\ exited
  /\ stopTask.atStop = {<<"u1", 1>>, <<"u2", 1>>}
  /\ hist["u1"][1].shutdown = 1 /\ hist["u2"][1].shutdown = 1
  /\ notifs[StopId].stage = "none"

\* C37: a presence event for an identity that has no record, and a step of a
\* polling pass (started or resumed) while an identity has no record,
\* neither give that identity a record nor add an event to its history nor
\* start a notification for it.
C37_NoRecordNoOp ==
  [][\A u \in Users :
       ~MapHas(sessionStates, u) =>
         (((\E presence \in PresenceKinds : PresenceUpdate(u, presence))
            \/ PollTick \/ (\E o \in PollIds : PollResume(o))) =>
            /\ ~MapHas(sessionStates', u)
            /\ hist'[u] = hist[u]
            /\ sigs'[u] = sigs[u]
            /\ \A o \in HandlerIds \cup PollIds :
                 notifs'[o].stage # "none" /\ notifs'[o].userId = u => notifs'[o] = notifs[o])]_vars

\* A polling pass is suspended in a delivery with identities left to visit
\* while u1, whose record a refresh removed in the middle of a session, has
\* none, and a presence event for u1 can arrive.
C37_Witness ==
  /\ ~MapHas(sessionStates, "u1") /\ ~MapHas(monitoredUsers, "u1")
  /\ Len(hist["u1"]) = 1 /\ hist["u1"][1].dropped
  /\ \E o \in PollIds : /\ polls[o].active /\ notifs[o].stage = "send"
                         /\ polls[o].next <= Len(monitoredUsers)
  /\ phase = "running" /\ ~exited /\ ~isShuttingDown

\* C38: the shutdown drain starts only from a bot that is not shutting
\* down; a shutdown request that finds a shutdown under way starts nothing
\* and changes no record, history or notification; the set of sessions the
\* drain was started for never changes afterwards; and the drain announces
\* no session more than once.
C38_DrainRunsOnce ==
  /\ [](\A u \in Users : \A k \in 1..Len(hist[u]) : hist[u][k].shutdown <= 1)
  /\ [][/\ (stopTask.stage # "drain" /\ stopTask'.stage # "idle") =>
             (stopTask.stage = "idle" /\ ~isShuttingDown) \/ stopTask.stage = "done"
        /\ stopTask.stage # "idle" =>
             (stopTask'.stage # "idle" /\ stopTask'.atStop = stopTask.atStop)
        /\ stopTask.stage = "done" => stopTask' = stopTask
        /\ (isShuttingDown /\ Signal) =>
             (stopTask' = stopTask /\ hist' = hist /\ notifs' = notifs
              /\ sessionStates' = sessionStates /\ exited')]_vars

\* The drain is suspended in the notification of one of two sessions that
\* were Active at the request, and a second shutdown request can arrive.
C38_Witness ==
  /\ isShuttingDown /\ ~exited /\ stopTask.stage = "drain"
  /\ Cardinality(stopTask.atStop) = 2
  /\ \E s \in stopTask.atStop : hist[s[1]][s[2]].shutdown = 1
  /\ \E s \in stopTask.atStop : hist[s[1]][s[2]].shutdown = 0
  /\ ENABLED Signal

\* C39: every notification that has been built resolved the display name of
\* an identity that was in the tracked set when it was built.
C39_NameAlwaysResolved ==
  \A o \in Owners : notifs[o].stage # "none" => notifs[o].named

====
